---- MODULE Spec2Model ----
(***************************************************************************)
(* Model of the CloudFormation drift detector, src/scripts/drift-detection.ts *)
(* (class DriftDetector and its CLI driver).  One invocation of a top-level *)
(* flow is followed from the call to its return or raised error.  Every    *)
(* external command (aws cloudformation ..., npx cdk deploy, the readline   *)
(* question) is an input chosen by the environment.                        *)
(*                                                                         *)
(* Japanese message texts of the source are written in English here:       *)
(*   "ドリフト検出が失敗しました: " -> "drift detection failed:"            *)
(*   "不明な理由"                   -> "unknown reason"                     *)
(*   "ドリフト検出がタイムアウトしました" -> "drift detection timed out"    *)
(***************************************************************************)
EXTENDS Integers, Sequences, FiniteSets, TLC

(***************************************************************************)
(* Program constants                                                       *)
(***************************************************************************)
maxAttempts == 30

pollIntervalMs == 10000

(***************************************************************************)
(* Bounds of the model                                                     *)
(***************************************************************************)
MaxDrifts == 3

\* How often a caller calls cleanup() on the detector after the flow.
MaxCleanups == 2

(***************************************************************************)
(* Data                                                                    *)
(***************************************************************************)
DetectionStatuses == {"DETECTION_IN_PROGRESS", "DETECTION_COMPLETE", "DETECTION_FAILED"}

StackDriftStatuses == {"IN_SYNC", "DRIFTED", "UNKNOWN", "NOT_CHECKED"}

ResourceDriftStatuses == {"IN_SYNC", "MODIFIED", "DELETED", "NOT_CHECKED"}

\* StatusReason is optional: "<undefined>" stands for the absent field.
StatusReasons == {"<undefined>", "", "Internal failure"}

\* The resources of the stack: the i-th entry of a drift list is resource i.
LogicalId(i) == i

ResourceDrift == [LogicalResourceId : 1..(MaxDrifts + 1),
                  StackResourceDriftStatus : ResourceDriftStatuses]

\* The lists describe-stack-resource-drifts gives: one entry per resource, any status.
DriftLists ==
    UNION { { [i \in 1..n |-> [LogicalResourceId |-> LogicalId(i),
                               StackResourceDriftStatus |-> st[i]]] :
              st \in [1..n -> ResourceDriftStatuses] } : n \in 0..MaxDrifts }

\* The answers describe-stack-drift-detection-status gives: a run in progress
\* has no stack status yet, a completed run reports one, a failed run may
\* give a reason.
DriftStatus ==
    [DetectionStatus : {"DETECTION_IN_PROGRESS"}, StackDriftStatus : {"NOT_CHECKED"},
     StatusReason : {"<undefined>"}]
    \cup [DetectionStatus : {"DETECTION_COMPLETE"}, StackDriftStatus : StackDriftStatuses,
          StatusReason : {"<undefined>"}]
    \cup [DetectionStatus : {"DETECTION_FAILED"}, StackDriftStatus : {"UNKNOWN"},
          StatusReason : StatusReasons]

NoStatus == [DetectionStatus |-> "<none>", StackDriftStatus |-> "<none>",
             StatusReason |-> "<undefined>"]

\* Messages of the errors execSync / JSON.parse raise, as word sequences.
ErrorMessages == { <<"Stack", "with", "id", "does", "not", "exist">>,
                   <<"AccessDenied">>,
                   <<"Unexpected", "token">> }

NoError == [name |-> "<none>", message |-> <<>>]

CommandError(m) == [name |-> "Error", message |-> m]

\* String.prototype.includes on word sequences: pat occurs contiguously in msg.
Includes(msg, pat) ==
    \E i \in 1..(Len(msg) + 1) :
        /\ i + Len(pat) - 1 <= Len(msg)
        /\ SubSeq(msg, i, i + Len(pat) - 1) = pat

Truthy(s) == s \notin {"<undefined>", ""}

\* String.prototype.toLowerCase on the answers of the model.
ToLowerCase(s) ==
    CASE s = "Y" -> "y"
      [] s = "YES" -> "yes"
      [] s = "Yes" -> "yes"
      [] OTHER -> s

Answers == {"y", "YES", "n", ""}

(***************************************************************************)
(* State                                                                   *)
(***************************************************************************)
VARIABLES
    pc,          \* the next step of the flow
    entry,       \* the top-level operation that was called
    phase,       \* "detect": inside detectAndReport, "repair": inside repairDrift
    rl,          \* DriftDetector.rl: "undefined" or "open"
    attempts,    \* waitForDriftDetection: let attempts
    detectionId, \* the id the current waitForDriftDetection call polls
    lastPoll,    \* the DriftStatus the last status poll of the current wait delivered
    driftStatus, \* the value waitForDriftDetection returned
    drifts,      \* detectAndReport: const drifts
    analysis,    \* detectAndReport: const analysis
    answer,      \* the answer given to rl.question
    result,      \* the value detectAndReport returned
    final,       \* the value detectAndRepair returned
    thrown,      \* the error a method of the detector threw last
    raised,      \* the error that left the top-level operation
    exitCode,    \* the code the CLI driver passed to process.exit
    waitLog,     \* the polls and sleeps of the current waitForDriftDetection call
    calls,       \* how often each external command was run
    runs,        \* detection runs the stack service has started
    stackCheck,  \* the last describe-stacks outcome and what checkStackExists made of it
    continueAnswer, \* preTestCheck: the answer to the question whether to go on
    helperReturn,   \* TestDriftHelper.ensureStackExists: the value it returned
    athenaPc,      \* AthenaHelper.executeMultipleQueries: where the call is
    sqlStatements, \* executeMultipleQueries: the argument
    results,       \* executeMultipleQueries: const results
    queryLog,      \* the statements handed to executeQuery, in the order of the calls
    athenaError,   \* the error that left executeMultipleQueries
    queryPc,       \* AthenaHelper.executeQuery: where the call is
    waitForCompletion, \* executeQuery: the argument
    elapsed,       \* waitForQueryCompletion: Date.now() - startTime
    sends,         \* executeQuery: how often each command was sent to the client
    lastState,     \* waitForQueryCompletion: const state of the last pass
    finalState,    \* executeQuery: const finalState
    queryResult,   \* the QueryResult executeQuery returned
    queryError,    \* the error executeQuery rethrew
    demoPc,        \* demo script: the statement of main() that runs next
    platform,      \* demo script: process.platform
    demoLog,       \* demo script: what run() and main() did, in order
    demoExit,      \* demo script: the exit code of the process
    cleanPc,       \* cleanup: the step that runs next
    cleanEntry,    \* cleanup: "main" (the full-cleanup script) or "performCleanup"
    cleanLevel,    \* CleanupManager.performCleanup: the argument level
    cleanPlan,     \* performCleanup: the parts of the cleanup still to run
    cleanLog,      \* the commands runCommand ran and the local cleanups, in order
    confirmAnswer, \* confirmAction: the answer the user typed
    bucketName,    \* performFullAWSCleanup: const bucketName
    cleanExit,     \* the code passed to process.exit by the cleanup script
    cleanError,    \* the error that left performCleanup
    tests,         \* CustomSequencer.sort: the array it was given
    sorted         \* CustomSequencer.sort: the array it returned

detectorVars == <<pc, entry, phase, rl, attempts, detectionId, lastPoll, driftStatus, drifts,
                  analysis, answer, result, final, thrown, raised, exitCode, waitLog, calls,
                  runs, stackCheck>>

athenaVars == <<athenaPc, sqlStatements, results, queryLog, athenaError>>

demoVars == <<demoPc, platform, demoLog, demoExit>>

sequencerVars == <<tests, sorted>>

callerVars == <<continueAnswer, helperReturn>>

cleanupVars == <<cleanPc, cleanEntry, cleanLevel, cleanPlan, cleanLog, confirmAnswer,
                 bucketName, cleanExit, cleanError>>

queryVars == <<queryPc, waitForCompletion, elapsed, sends, lastState, finalState,
               queryResult, queryError>>

\* The state of the programs other than the detector and its callers.
scriptVars == <<athenaVars, queryVars, demoVars, sequencerVars, cleanupVars>>

\* What the steps of one script leave alone.
exceptAthena == <<detectorVars, callerVars, queryVars, demoVars, sequencerVars, cleanupVars>>

exceptDemo == <<detectorVars, callerVars, athenaVars, queryVars, sequencerVars, cleanupVars>>

exceptQuery == <<detectorVars, callerVars, athenaVars, demoVars, sequencerVars, cleanupVars>>

exceptCleanup == <<detectorVars, callerVars, athenaVars, queryVars, demoVars,
                   sequencerVars>>

exceptSequencer == <<detectorVars, callerVars, athenaVars, queryVars, demoVars, cleanupVars>>

vars == <<pc, entry, phase, rl, attempts, detectionId, lastPoll, driftStatus, drifts,
          analysis, answer, result, final, thrown, raised, exitCode, waitLog, calls, runs,
          stackCheck, callerVars, scriptVars>>

\* The status polls are counted in waitLog.  "cleanup" counts the calls of cleanup()
\* made from outside the detector.
Commands == {"describe-stacks", "detect-stack-drift",
             "describe-stack-resource-drifts", "cdk deploy", "question", "createInterface",
             "close", "displayDriftReport", "cleanup"}

\* "main" is the CLI driver: detectAndRepair() and process.exit.
Entries == {"detectAndReport", "main"}

NoAnalysis == [total |-> -1, drifted |-> -1, deleted |-> <<>>, modified |-> <<>>, inSync |-> -1]

\* The object detectAndReport returns; fields lists the keys the object has.
NoResult == [returned |-> FALSE, fields |-> {}, needsRepair |-> FALSE, stackExists |-> FALSE,
             driftStatus |-> NoStatus, analysis |-> NoAnalysis, drifts |-> <<>>]

NoFinal == [returned |-> FALSE, report |-> NoResult, repairAttempted |-> FALSE,
            repairSuccess |-> FALSE]

Bump(c, cmd) == [c EXCEPT ![cmd] = @ + 1]

(***************************************************************************)
(* Pure parts of the methods                                               *)
(***************************************************************************)
\* drifts.filter(d => d.StackResourceDriftStatus === ...): the subsequence of s whose
\* elements have a status in statuses.
RECURSIVE Filter(_, _)
Filter(s, statuses) ==
    IF s = <<>> THEN <<>>
    ELSE IF Head(s).StackResourceDriftStatus \in statuses
         THEN <<Head(s)>> \o Filter(Tail(s), statuses)
         ELSE Filter(Tail(s), statuses)

IsDeleted == {"DELETED"}

IsModified == {"MODIFIED"}

IsInSync == {"IN_SYNC"}

IsDrifted == {"MODIFIED", "DELETED"}

IsNotDrifted == ResourceDriftStatuses \ IsDrifted

analyzeDrifts_inSyncIsRest(ds) ==
    [total    |-> Len(ds),
     drifted  |-> Len(Filter(ds, IsDrifted)),
     deleted  |-> Filter(ds, IsDeleted),
     modified |-> Filter(ds, IsModified),
     inSync   |-> Len(Filter(ds, IsNotDrifted))]

analyzeDrifts_totalIsClassified(ds) ==
    [total    |-> Len(Filter(ds, IsDrifted)) + Len(Filter(ds, IsInSync)),
     drifted  |-> Len(Filter(ds, IsDrifted)),
     deleted  |-> Filter(ds, IsDeleted),
     modified |-> Filter(ds, IsModified),
     inSync   |-> Len(Filter(ds, IsInSync))]

Reverse(s) == [i \in 1..Len(s) |-> s[Len(s) + 1 - i]]

analyzeDrifts_deletedReversed(ds) ==
    [total    |-> Len(ds),
     drifted  |-> Len(Filter(ds, IsDrifted)),
     deleted  |-> Reverse(Filter(ds, IsDeleted)),
     modified |-> Filter(ds, IsModified),
     inSync   |-> Len(Filter(ds, IsInSync))]

analyzeDrifts(ds) ==
    [total    |-> Len(ds),
     drifted  |-> Len(Filter(ds, IsDrifted)),
     deleted  |-> Filter(ds, IsDeleted),
     modified |-> Filter(ds, IsModified),
     inSync   |-> Len(Filter(ds, IsInSync))]

\* cleanup(): closes the channel if there is one; closed tells whether rl.close ran.
cleanup_noClose(channel) == [rl |-> channel, closed |-> FALSE]

cleanup_keepsReference(channel) == [rl |-> channel, closed |-> (channel # "undefined")]

cleanup(channel) == [rl |-> "undefined", closed |-> (channel # "undefined")]

\* checkStackExists on the outcome of describe-stacks.  A response is
\* [ok |-> TRUE, stacks |-> n] (n entries in Stacks) or [ok |-> FALSE, error |-> e].
\* The value is [throws, value, error].
checkStackExists_anyErrorIsFalse(resp) ==
    IF resp.ok
    THEN [throws |-> FALSE, value |-> resp.stacks > 0, error |-> NoError]
    ELSE [throws |-> FALSE, value |-> FALSE, error |-> NoError]

checkStackExists(resp) ==
    IF resp.ok
    THEN [throws |-> FALSE, value |-> resp.stacks > 0, error |-> NoError]
    ELSE IF Includes(resp.error.message, <<"does", "not", "exist">>)
         THEN [throws |-> FALSE, value |-> FALSE, error |-> NoError]
         ELSE [throws |-> TRUE, value |-> FALSE, error |-> resp.error]

DescribeStacksResponses ==
    [ok : {TRUE}, stacks : {0, 1}, error : {NoError}]
    \cup [ok : {FALSE}, stacks : {0}, error : {CommandError(m) : m \in ErrorMessages}]

\* detectAndReport after checkStackExists returned: the early return or the next step.
AfterExistsCheck_alwaysDetect(stackExists) == "startDriftDetection"

AfterExistsCheck(stackExists) ==
    IF ~stackExists THEN "return" ELSE "startDriftDetection"

\* waitForDriftDetection: the loop condition.
LoopCondition_offByOne(a) == a <= maxAttempts

LoopCondition_doubleBudget(a) == a < maxAttempts + maxAttempts

LoopCondition(a) == a < maxAttempts

\* waitForDriftDetection: the time slept after an in-progress poll.
SleepMs_backoff(a) == pollIntervalMs * (a + 1)

SleepMs(a) == pollIntervalMs

\* new Error(`ドリフト検出が失敗しました: ${status.StatusReason || '不明な理由'}`)
DetectionFailedError(status) ==
    [name |-> "Error",
     message |-> <<"drift detection failed:",
                   IF Truthy(status.StatusReason) THEN status.StatusReason
                   ELSE "unknown reason">>]

DetectionTimeoutError == [name |-> "Error", message |-> <<"drift detection timed out">>]

\* waitForDriftDetection: what one pass of the loop body does with the outcome of the
\* status command, [ok |-> TRUE, status |-> s] or [ok |-> FALSE, error |-> e].
PollBranch_failedKeepsPolling(o) ==
    IF ~o.ok THEN [do |-> "throw", error |-> o.error, value |-> NoStatus]
    ELSE IF o.status.DetectionStatus = "DETECTION_COMPLETE"
         THEN [do |-> "return", error |-> NoError, value |-> o.status]
         ELSE [do |-> "sleep", error |-> NoError, value |-> NoStatus]

PollBranch_completeKeepsPolling(o) ==
    IF ~o.ok THEN [do |-> "throw", error |-> o.error, value |-> NoStatus]
    ELSE IF o.status.DetectionStatus = "DETECTION_FAILED"
         THEN [do |-> "throw", error |-> DetectionFailedError(o.status), value |-> NoStatus]
         ELSE [do |-> "sleep", error |-> NoError, value |-> NoStatus]

PollBranch_errorRetried(o) ==
    IF ~o.ok THEN [do |-> "sleep", error |-> NoError, value |-> NoStatus]
    ELSE IF o.status.DetectionStatus = "DETECTION_COMPLETE"
         THEN [do |-> "return", error |-> NoError, value |-> o.status]
         ELSE IF o.status.DetectionStatus = "DETECTION_FAILED"
              THEN [do |-> "throw", error |-> DetectionFailedError(o.status), value |-> NoStatus]
              ELSE [do |-> "sleep", error |-> NoError, value |-> NoStatus]

PollBranch_failedReturns(o) ==
    IF ~o.ok THEN [do |-> "throw", error |-> o.error, value |-> NoStatus]
    ELSE IF o.status.DetectionStatus \in {"DETECTION_COMPLETE", "DETECTION_FAILED"}
         THEN [do |-> "return", error |-> NoError, value |-> o.status]
         ELSE [do |-> "sleep", error |-> NoError, value |-> NoStatus]

PollBranch(o) ==
    IF ~o.ok THEN [do |-> "throw", error |-> o.error, value |-> NoStatus]
    ELSE IF o.status.DetectionStatus = "DETECTION_COMPLETE"
         THEN [do |-> "return", error |-> NoError, value |-> o.status]
         ELSE IF o.status.DetectionStatus = "DETECTION_FAILED"
              THEN [do |-> "throw", error |-> DetectionFailedError(o.status), value |-> NoStatus]
              ELSE [do |-> "sleep", error |-> NoError, value |-> NoStatus]

PollOutcomes ==
    [ok : {TRUE}, status : DriftStatus, error : {NoError}]
    \cup [ok : {FALSE}, status : {NoStatus}, error : {CommandError(m) : m \in ErrorMessages}]

\* detectAndReport: catch (error) { console.error(...); throw error; }
DetectAndReportCatch_swallow(error) == [rethrow |-> FALSE, error |-> NoError]

DetectAndReportCatch(error) == [rethrow |-> TRUE, error |-> error]

\* repairDrift: the value returned once the verification run completed with status.
RepairVerified_notDrifted(status) == status.StackDriftStatus # "DRIFTED"

RepairVerified(status) == status.StackDriftStatus = "IN_SYNC"

\* repairDrift: catch (error) { console.error(...); return false; }
RepairCatch_rethrow(error) == [rethrow |-> TRUE, value |-> FALSE]

RepairCatch_returnsTrue(error) == [rethrow |-> FALSE, value |-> TRUE]

RepairCatch(error) == [rethrow |-> FALSE, value |-> FALSE]

\* askForRepair: the early return for a drift-free analysis, else the prompt.
askForRepairPrompts_always(a) == a.drifted >= 0

askForRepairPrompts(a) == a.drifted # 0

\* askForRepair: the value the answer resolves to.
IsYes_caseSensitive(ans) == ans = "y" \/ ans = "yes"

IsYes(ans) == ToLowerCase(ans) = "y" \/ ToLowerCase(ans) = "yes"

\* CLI driver: process.exit(result.stackExists && (!result.needsRepair || result.repairSuccess) ? 0 : 1)
ExitCodeOf_ignoresRepair(f) ==
    IF f.report.stackExists THEN 0 ELSE 1

ExitCodeOf(f) ==
    IF f.report.stackExists /\ (~f.report.needsRepair \/ f.repairSuccess) THEN 0 ELSE 1

\* detectAndRepair: if (result.needsRepair) - whether repairDrift() is invoked.
RepairWanted_always(r) == TRUE

RepairWanted_ifDrifted(r) == r.stackExists /\ r.analysis.drifted > 0

RepairWanted(r) == r.needsRepair

\* displayDriftReport(driftStatus, analysis): console.log calls only.  What it leaves
\* behind: its two arguments, the detector's channel, the external queries it made and
\* the number of resources it listed.
displayDriftReport_dropsDeleted(st, an, channel) ==
    [driftStatus |-> st, analysis |-> [an EXCEPT !.deleted = <<>>], rl |-> channel,
     queries |-> 0, listed |-> Len(an.deleted) + Len(an.modified)]

displayDriftReport(st, an, channel) ==
    [driftStatus |-> st, analysis |-> an, rl |-> channel, queries |-> 0,
     listed |-> Len(an.deleted) + Len(an.modified)]

\* createReadlineInterface(): the channel is created only if there is none.
createReadlineInterface(channel) ==
    IF channel = "undefined" THEN [rl |-> "open", created |-> TRUE]
    ELSE [rl |-> channel, created |-> FALSE]

\* return { needsRepair: false, stackExists: false }
AbsentResult ==
    [returned |-> TRUE, fields |-> {"needsRepair", "stackExists"}, needsRepair |-> FALSE,
     stackExists |-> FALSE, driftStatus |-> NoStatus, analysis |-> NoAnalysis, drifts |-> <<>>]

\* const detectionId = await this.startDriftDetection();
\* await this.waitForDriftDetection(detectionId): the id the wait polls, given the id
\* of the run just started and the id polled before.
PolledId_previous(started, previous) == IF previous # 0 THEN previous ELSE started

PolledId(started, previous) == started

\* return { needsRepair: shouldRepair, stackExists: true, driftStatus, analysis, drifts }
FullResult_dropsDrifts(shouldRepair, st, an, ds) ==
    [returned |-> TRUE,
     fields |-> {"needsRepair", "stackExists", "driftStatus", "analysis", "drifts"},
     needsRepair |-> shouldRepair, stackExists |-> TRUE, driftStatus |-> st,
     analysis |-> an, drifts |-> <<>>]

FullResult(shouldRepair, st, an, ds) ==
    [returned |-> TRUE,
     fields |-> {"needsRepair", "stackExists", "driftStatus", "analysis", "drifts"},
     needsRepair |-> shouldRepair, stackExists |-> TRUE, driftStatus |-> st,
     analysis |-> an, drifts |-> ds]

\* detectAndRepair: the object returned when no repair is attempted / after repairDrift.
FinalResult(r, attempted, success) ==
    [returned |-> TRUE, report |-> r, repairAttempted |-> attempted, repairSuccess |-> success]

(***************************************************************************)
(* Init: the detector right after construction                             *)
(***************************************************************************)
\* The commands AthenaHelper sends to its client.
ClientCommands == {"StartQueryExecution", "GetQueryExecution", "GetQueryResults"}

\* A QueryResult; fields lists the keys the object has.
NoQueryResult == [returned |-> FALSE, fields |-> {}, state |-> "<none>", error |-> "<undefined>"]

\* The value a method of TestDriftHelper returned, if it returned.
NoReturn == [returned |-> FALSE, value |-> FALSE]

NoCheck == [called |-> FALSE, resp |-> [ok |-> TRUE, stacks |-> 0, error |-> NoError],
            outcome |-> [throws |-> FALSE, value |-> FALSE, error |-> NoError]]

Init ==
    /\ pc = "idle"
    /\ entry = "<none>"
    /\ phase = "detect"
    /\ rl = "undefined"
    /\ attempts = 0
    /\ detectionId = 0
    /\ lastPoll = NoStatus
    /\ driftStatus = NoStatus
    /\ drifts = <<>>
    /\ analysis = NoAnalysis
    /\ answer = "<none>"
    /\ result = NoResult
    /\ final = NoFinal
    /\ thrown = NoError
    /\ raised = NoError
    /\ exitCode = -1
    /\ waitLog = <<>>
    /\ calls = [c \in Commands |-> 0]
    /\ runs = 0
    /\ stackCheck = NoCheck
    /\ continueAnswer = "<none>"
    /\ helperReturn = NoReturn
    /\ athenaPc = "idle"
    /\ sqlStatements = <<>>
    /\ results = <<>>
    /\ queryLog = <<>>
    /\ athenaError = NoError
    /\ queryPc = "idle"
    /\ waitForCompletion = TRUE
    /\ elapsed = 0
    /\ sends = [c \in ClientCommands |-> 0]
    /\ lastState = "<none>"
    /\ finalState = "<none>"
    /\ queryResult = NoQueryResult
    /\ queryError = NoError
    /\ cleanPc = "idle"
    /\ cleanEntry = "<none>"
    /\ cleanLevel = "<none>"
    /\ cleanPlan = <<>>
    /\ cleanLog = <<>>
    /\ confirmAnswer = "<none>"
    /\ bucketName = "<none>"
    /\ cleanExit = -1
    /\ cleanError = NoError
    /\ demoPc = 0
    /\ platform = "<none>"
    /\ demoLog = <<>>
    /\ demoExit = -1
    /\ tests = <<>>
    /\ sorted = <<>>

(***************************************************************************)
(* How a step ends.  Each of these sets pc, phase, rl, result, final,      *)
(* raised, exitCode and calls; c is calls after the step's own commands.   *)
(***************************************************************************)
Goto(p, c) ==
    /\ pc' = p
    /\ calls' = c
    /\ UNCHANGED <<phase, rl, result, final, raised, exitCode>>

\* detectAndReport returns r: the finally block runs cleanup(), then the caller goes on.
\* detectAndRepair calls repairDrift if r.needsRepair, else returns; the CLI driver exits.
ReturnReport(r, c) ==
    /\ result' = r
    /\ rl' = cleanup(rl).rl
    /\ calls' = IF cleanup(rl).closed THEN Bump(c, "close") ELSE c
    /\ raised' = raised
    /\ IF entry = "detectAndReport"
       THEN /\ pc' = "done"
            /\ UNCHANGED <<phase, final, exitCode>>
       ELSE IF RepairWanted(r)
            THEN /\ pc' = "repairDrift"
                 /\ phase' = "repair"
                 /\ UNCHANGED <<final, exitCode>>
            ELSE /\ pc' = "done"
                 /\ phase' = phase
                 /\ final' = FinalResult(r, FALSE, FALSE)
                 /\ exitCode' = IF entry = "main" THEN ExitCodeOf(FinalResult(r, FALSE, FALSE))
                                ELSE exitCode

\* repairDrift returns success; detectAndRepair returns, the CLI driver exits.
ReturnRepair(success, c) ==
    /\ pc' = "done"
    /\ calls' = c
    /\ final' = FinalResult(result, TRUE, success)
    /\ exitCode' = IF entry = "main" THEN ExitCodeOf(FinalResult(result, TRUE, success))
                   ELSE exitCode
    /\ UNCHANGED <<phase, rl, result, raised>>

\* A method of the detector throws err.  Inside repairDrift the catch block returns
\* false (an error leaving repairDrift would pass through detectAndRepair to the CLI
\* driver, which exits with 1).  Inside detectAndReport the catch block rethrows, the finally block runs
\* cleanup(), detectAndRepair lets the error pass and the CLI driver exits with 1.
Throw(err, c) ==
    /\ thrown' = err
    /\ IF phase = "repair"
       THEN IF RepairCatch(err).rethrow
            THEN /\ pc' = "done"
                 /\ raised' = err
                 /\ calls' = c
                 /\ exitCode' = IF entry = "main" THEN 1 ELSE exitCode
                 /\ UNCHANGED <<phase, rl, result, final>>
            ELSE ReturnRepair(RepairCatch(err).value, c)
       ELSE IF DetectAndReportCatch(err).rethrow
            THEN /\ pc' = "done"
                 /\ raised' = DetectAndReportCatch(err).error
                 /\ rl' = cleanup(rl).rl
                 /\ calls' = IF cleanup(rl).closed THEN Bump(c, "close") ELSE c
                 /\ exitCode' = IF entry = "main" THEN 1 ELSE exitCode
                 /\ UNCHANGED <<phase, result, final>>
            ELSE ReturnReport(AbsentResult, c)

(***************************************************************************)
(* Actions                                                                 *)
(***************************************************************************)
\* A caller invokes detectAndReport(), or the CLI driver invokes detectAndRepair().
Call ==
    /\ pc = "idle"
    /\ \E e \in Entries : entry' = e
    /\ pc' = "checkStackExists"
    /\ UNCHANGED <<phase, rl, attempts, detectionId, lastPoll, driftStatus, drifts, analysis,
                   answer, result, final, thrown, raised, exitCode, waitLog, calls, runs,
                   stackCheck>>
    /\ UNCHANGED <<callerVars, scriptVars>>

\* detectAndReport: await this.checkStackExists() and the early return.
CheckStackExists ==
    /\ pc = "checkStackExists"
    /\ \E resp \in DescribeStacksResponses :
         LET o == checkStackExists(resp)
             c == Bump(calls, "describe-stacks")
         IN /\ stackCheck' = [called |-> TRUE, resp |-> resp, outcome |-> o]
            /\ IF o.throws
               THEN Throw(o.error, c)
               ELSE /\ thrown' = thrown
                    /\ IF AfterExistsCheck(o.value) = "return"
                       THEN ReturnReport(AbsentResult, c)
                       ELSE Goto("startDriftDetection", c)
    /\ UNCHANGED <<entry, attempts, detectionId, lastPoll, driftStatus, drifts, analysis,
                   answer, waitLog, runs>>
    /\ UNCHANGED <<callerVars, scriptVars>>

\* startDriftDetection(), and the entry of waitForDriftDetection(detectionId).
StartDriftDetection ==
    /\ pc = "startDriftDetection"
    /\ \/ /\ runs' = runs + 1
          /\ detectionId' = PolledId(runs + 1, detectionId)
          /\ attempts' = 0
          /\ lastPoll' = NoStatus
          /\ waitLog' = <<>>
          /\ thrown' = thrown
          /\ Goto("waitForDriftDetection", Bump(calls, "detect-stack-drift"))
       \/ /\ \E m \in ErrorMessages :
               Throw(CommandError(m), Bump(calls, "detect-stack-drift"))
          /\ UNCHANGED <<runs, detectionId, attempts, lastPoll, waitLog>>
    /\ UNCHANGED <<entry, driftStatus, drifts, analysis, answer, stackCheck>>
    /\ UNCHANGED <<callerVars, scriptVars>>

\* waitForDriftDetection: one pass of the loop body up to the sleep.
Poll ==
    /\ pc = "waitForDriftDetection"
    /\ LoopCondition(attempts)
    /\ \E o \in PollOutcomes :
         LET b == PollBranch(o)
             c == calls
         IN /\ lastPoll' = o.status
            /\ waitLog' = Append(waitLog, [ev |-> "poll", id |-> detectionId, ms |-> 0,
                                           error |-> o.error])
            /\ CASE b.do = "return" ->
                      /\ driftStatus' = b.value
                      /\ thrown' = thrown
                      /\ IF phase = "repair"
                         THEN ReturnRepair(RepairVerified(b.value), c)
                         ELSE Goto("getDriftDetails", c)
                 [] b.do = "throw" ->
                      /\ driftStatus' = driftStatus
                      /\ Throw(b.error, c)
                 [] OTHER ->
                      /\ driftStatus' = driftStatus
                      /\ thrown' = thrown
                      /\ Goto("sleep", c)
    /\ UNCHANGED <<entry, attempts, detectionId, drifts, analysis, answer, runs, stackCheck>>
    /\ UNCHANGED <<callerVars, scriptVars>>

\* waitForDriftDetection: await setTimeout(10000); attempts++.
Sleep ==
    /\ pc = "sleep"
    /\ attempts' = attempts + 1
    /\ waitLog' = Append(waitLog, [ev |-> "sleep", id |-> detectionId,
                                   ms |-> SleepMs(attempts), error |-> NoError])
    /\ Goto("waitForDriftDetection", calls)
    /\ UNCHANGED <<entry, detectionId, lastPoll, driftStatus, drifts, analysis, answer,
                   thrown, runs, stackCheck>>
    /\ UNCHANGED <<callerVars, scriptVars>>

\* waitForDriftDetection: the loop ended, throw the timeout error.
Timeout ==
    /\ pc = "waitForDriftDetection"
    /\ ~LoopCondition(attempts)
    /\ Throw(DetectionTimeoutError, calls)
    /\ UNCHANGED <<entry, attempts, detectionId, lastPoll, driftStatus, drifts, analysis,
                   answer, waitLog, runs, stackCheck>>
    /\ UNCHANGED <<callerVars, scriptVars>>

\* detectAndReport: getDriftDetails, analyzeDrifts, displayDriftReport and askForRepair
\* up to the question (or its early return for a drift-free stack).  The locals of the
\* waitForDriftDetection call that returned (attempts, the record of its polls) are gone.
GetDriftDetails ==
    /\ pc = "getDriftDetails"
    /\ \/ \E ds \in DriftLists :
            LET shown == displayDriftReport(driftStatus, analyzeDrifts(ds), rl)
                an == shown.analysis
                fetched == Bump(calls, "describe-stack-resource-drifts")
                c == Bump([fetched EXCEPT !["describe-stack-resource-drifts"] =
                                              @ + shown.queries], "displayDriftReport")
            IN /\ drifts' = ds
               /\ analysis' = an
               /\ driftStatus' = shown.driftStatus
               /\ thrown' = thrown
               /\ IF askForRepairPrompts(an)
                  THEN /\ pc' = "question"
                       /\ rl' = createReadlineInterface(shown.rl).rl
                       /\ calls' = IF createReadlineInterface(shown.rl).created
                                   THEN Bump(c, "createInterface") ELSE c
                       /\ UNCHANGED <<phase, result, final, raised, exitCode>>
                  ELSE ReturnReport(FullResult(FALSE, shown.driftStatus, an, ds), c)
       \/ /\ \E m \in ErrorMessages :
               Throw(CommandError(m), Bump(calls, "describe-stack-resource-drifts"))
          /\ UNCHANGED <<drifts, analysis, driftStatus>>
    /\ attempts' = 0
    /\ waitLog' = <<>>
    /\ UNCHANGED <<entry, detectionId, lastPoll, answer, runs, stackCheck>>
    /\ UNCHANGED <<callerVars, scriptVars>>

\* askForRepair: the user answers the question; detectAndReport returns.
Question ==
    /\ pc = "question"
    /\ \E a \in Answers :
         /\ answer' = a
         /\ ReturnReport(FullResult(IsYes(a), driftStatus, analysis, drifts),
                         Bump(calls, "question"))
    /\ UNCHANGED <<entry, attempts, detectionId, lastPoll, driftStatus, drifts, analysis,
                   thrown, waitLog, runs, stackCheck>>
    /\ UNCHANGED <<callerVars, scriptVars>>

\* repairDrift: npx cdk deploy.
Deploy ==
    /\ pc = "repairDrift"
    /\ \/ /\ thrown' = thrown
          /\ Goto("startDriftDetection", Bump(calls, "cdk deploy"))
       \/ \E m \in ErrorMessages : Throw(CommandError(m), Bump(calls, "cdk deploy"))
    /\ UNCHANGED <<entry, attempts, detectionId, lastPoll, driftStatus, drifts, analysis,
                   answer, waitLog, runs, stackCheck>>
    /\ UNCHANGED <<callerVars, scriptVars>>

\* The caller of detectAndReport() calls cleanup() on the detector afterwards, as
\* TestDriftHelper.cleanup does.  (The CLI driver ends the process instead.)
CleanupCall ==
    /\ pc = "done"
    /\ entry = "detectAndReport"
    /\ calls["cleanup"] < MaxCleanups
    /\ rl' = cleanup(rl).rl
    /\ calls' = IF cleanup(rl).closed THEN Bump(Bump(calls, "cleanup"), "close")
                ELSE Bump(calls, "cleanup")
    /\ UNCHANGED <<pc, entry, phase, attempts, detectionId, lastPoll, driftStatus, drifts,
                   analysis, answer, result, final, thrown, raised, exitCode, waitLog, runs,
                   stackCheck>>
    /\ UNCHANGED <<callerVars, scriptVars>>

Next ==
    \/ Call
    \/ CheckStackExists
    \/ StartDriftDetection
    \/ Poll
    \/ Sleep
    \/ Timeout
    \/ GetDriftDetails
    \/ Question
    \/ Deploy
    \/ CleanupCall

Spec == Init /\ [][Next]_vars

TypeOK ==
    /\ pc \in {"idle", "checkStackExists", "startDriftDetection", "waitForDriftDetection",
               "sleep", "getDriftDetails", "question", "repairDrift", "done"}
    /\ rl \in {"undefined", "open"}
    /\ attempts \in 0..maxAttempts
    /\ exitCode \in {-1, 0, 1}

(***************************************************************************)
(* Properties                                                              *)
(***************************************************************************)
Polls == Cardinality({i \in DOMAIN waitLog : waitLog[i].ev = "poll"})

Sleeps == Cardinality({i \in DOMAIN waitLog : waitLog[i].ev = "sleep"})

LastIsPoll == waitLog # <<>> /\ waitLog[Len(waitLog)].ev = "poll"

CountStatus(ds, st) ==
    Cardinality({i \in DOMAIN ds : ds[i].StackResourceDriftStatus = st})

\* C1 - Bounded polling: a waitForDriftDetection call never makes a 31st status poll;
\* when 30 polls all reported DETECTION_IN_PROGRESS the only step left is the timeout
\* error, and the timeout error is thrown only after exactly 30 polls.
C1_BoundedPolling ==
    /\ Polls <= 30
    /\ (pc = "waitForDriftDetection" /\ Polls = 30) => (ENABLED Timeout /\ ~ENABLED Poll)
    /\ (pc = "waitForDriftDetection" /\ Polls < 30) => ~ENABLED Timeout
    /\ (thrown = DetectionTimeoutError) =>
          /\ pc = "done"
          /\ Polls = 30
          /\ \A i \in DOMAIN waitLog : waitLog[i].error = NoError

C1_Witness == thrown = DetectionTimeoutError /\ Polls = 30 /\ pc = "done"

\* C2 - Short-circuit on failure: once a status poll reported DETECTION_FAILED the call
\* has failed with an error carrying the reported (non-empty) StatusReason, and that
\* poll is the last event of the call: no sleep and no poll follows it.
C2_FailedShortCircuit ==
    lastPoll.DetectionStatus = "DETECTION_FAILED" =>
        /\ pc = "done"
        /\ LastIsPoll
        /\ Polls = Sleeps + 1
        /\ thrown.name = "Error"
        /\ Truthy(lastPoll.StatusReason) => Includes(thrown.message, <<lastPoll.StatusReason>>)
        /\ phase = "detect" => raised = thrown

C2_Witness ==
    /\ lastPoll.DetectionStatus = "DETECTION_FAILED"
    /\ Truthy(lastPoll.StatusReason)
    /\ Polls = 1
    /\ Sleeps = 0

\* C3 - When a status poll is the first to report DETECTION_COMPLETE, the call has
\* returned the snapshot of that very poll, after k polls and k-1 sleeps (k <= 30),
\* without an error; this holds for the 30th poll too.
C3_CompleteReturnsSnapshot ==
    (lastPoll.DetectionStatus = "DETECTION_COMPLETE" /\ waitLog # <<>>) =>
        /\ pc \in {"getDriftDetails", "done"}
        /\ driftStatus = lastPoll
        /\ thrown = NoError
        /\ LastIsPoll
        /\ Polls = Sleeps + 1
        /\ Polls <= 30
        /\ phase = "repair" => final.returned

C3_Witness ==
    /\ lastPoll.DetectionStatus = "DETECTION_COMPLETE"
    /\ pc = "getDriftDetails"
    /\ Polls = 30
    /\ Sleeps = 29
    /\ driftStatus = lastPoll

\* C4 - No busy spin: the events of a waitForDriftDetection call alternate poll, sleep,
\* poll, ...; every sleep lasts 10000 ms whatever the attempt, and a poll is issued only
\* at the start or right after a sleep.
C4_FixedIntervalBetweenPolls ==
    /\ \A i \in DOMAIN waitLog :
          /\ (i % 2 = 1) => waitLog[i].ev = "poll"
          /\ (i % 2 = 0) => (waitLog[i].ev = "sleep" /\ waitLog[i].ms = 10000)
    /\ pc = "waitForDriftDetection" => ~LastIsPoll
    /\ pc = "sleep" => LastIsPoll

C4_Witness ==
    /\ Len(waitLog) >= 5
    /\ waitLog[2].ev = "sleep"
    /\ waitLog[4].ev = "sleep"
    /\ waitLog[5].ev = "poll"

\* C5 - A status poll that raised a command error is the last event of the call: the
\* call has failed with that very error, whatever is left of the attempt budget.
C5_PollErrorNotRetried ==
    \A i \in DOMAIN waitLog :
        waitLog[i].error # NoError =>
            /\ i = Len(waitLog)
            /\ pc = "done"
            /\ thrown = waitLog[i].error
            /\ phase = "detect" => (raised = waitLog[i].error /\ ~result.returned)

C5_Witness ==
    /\ Len(waitLog) = 3
    /\ waitLog[3].error # NoError
    /\ thrown = waitLog[3].error

ReturnedFalse(o) == ~o.throws /\ o.value = FALSE

NotFoundFailure(resp) ==
    ~resp.ok /\ Includes(resp.error.message, <<"does", "not", "exist">>)

\* C6 (as claimed) - checkStackExists returns false exactly when describe-stacks failed
\* with an error saying that the stack does not exist; every other failure is thrown.
C6_FalseOnlyOnNotFound ==
    stackCheck.called =>
        /\ ReturnedFalse(stackCheck.outcome) <=> NotFoundFailure(stackCheck.resp)
        /\ (~stackCheck.resp.ok /\ ~NotFoundFailure(stackCheck.resp)) =>
              (stackCheck.outcome.throws /\ stackCheck.outcome.error = stackCheck.resp.error)

\* C6 (amended) - checkStackExists returns false exactly when describe-stacks failed
\* with an error saying that the stack does not exist, or succeeded with an empty
\* Stacks list; every other failure is thrown to the caller with the error unchanged,
\* and a thrown error always is the error of a failed command.
C6_FalseOnNotFoundOrEmpty ==
    stackCheck.called =>
        /\ ReturnedFalse(stackCheck.outcome) <=>
              \/ NotFoundFailure(stackCheck.resp)
              \/ (stackCheck.resp.ok /\ stackCheck.resp.stacks = 0)
        /\ (~stackCheck.resp.ok /\ ~NotFoundFailure(stackCheck.resp)) =>
              /\ stackCheck.outcome.throws
              /\ stackCheck.outcome.error = stackCheck.resp.error
              /\ thrown = stackCheck.resp.error
        /\ stackCheck.outcome.throws => ~stackCheck.resp.ok

C6_Witness ==
    /\ stackCheck.called
    /\ ~stackCheck.resp.ok
    /\ ~NotFoundFailure(stackCheck.resp)
    /\ stackCheck.outcome.throws

\* C7 - Non-existent stack short-circuit: when checkStackExists yielded false,
\* detectAndReport has returned {needsRepair: false, stackExists: false} and no
\* detection was started, no status was polled, no details were fetched, nothing was
\* reported and the user was not asked.
C7_AbsentStackShortCircuit ==
    (stackCheck.called /\ ReturnedFalse(stackCheck.outcome)) =>
        /\ pc = "done"
        /\ result.returned
        /\ result.fields = {"needsRepair", "stackExists"}
        /\ result.stackExists = FALSE
        /\ result.needsRepair = FALSE
        /\ raised = NoError
        /\ calls["detect-stack-drift"] = 0
        /\ runs = 0
        /\ waitLog = <<>>
        /\ lastPoll = NoStatus
        /\ calls["describe-stack-resource-drifts"] = 0
        /\ calls["displayDriftReport"] = 0
        /\ calls["createInterface"] = 0
        /\ calls["question"] = 0

C7_Witness ==
    /\ stackCheck.called
    /\ ReturnedFalse(stackCheck.outcome)
    /\ result.returned
    /\ ~result.stackExists

\* The detection run detectAndReport started ended without completing: the wait threw.
DetectWaitFailed == phase = "detect" /\ pc = "done" /\ Polls + Sleeps > 0

\* C8 - In detectAndReport details are fetched, analysed, reported and the user is
\* asked only after the run it started reached DETECTION_COMPLETE; when the wait ended
\* with a failure, a timeout or a poll error none of this happened and no result,
\* hence no analysis, was returned.
C8_OnlyCompleteProceeds ==
    /\ (\/ calls["describe-stack-resource-drifts"] > 0
        \/ calls["displayDriftReport"] > 0
        \/ calls["question"] > 0
        \/ calls["createInterface"] > 0
        \/ analysis # NoAnalysis
        \/ "analysis" \in result.fields) =>
           /\ runs >= 1
           /\ driftStatus.DetectionStatus = "DETECTION_COMPLETE"
           /\ phase = "detect" => lastPoll = driftStatus
    /\ DetectWaitFailed =>
           /\ lastPoll.DetectionStatus # "DETECTION_COMPLETE"
           /\ thrown # NoError
           /\ calls["describe-stack-resource-drifts"] = 0
           /\ calls["displayDriftReport"] = 0
           /\ calls["question"] = 0
           /\ analysis = NoAnalysis
           /\ drifts = <<>>
           /\ ~result.returned
           /\ ~final.returned

C8_Witness ==
    /\ DetectWaitFailed
    /\ lastPoll.DetectionStatus = "DETECTION_FAILED"
    /\ analysis = NoAnalysis

\* C9 - An error thrown inside detectAndReport by checkStackExists, startDriftDetection,
\* waitForDriftDetection or getDriftDetails has left detectAndReport unchanged: no
\* result object was returned and none of the steps after the failing one ran.
C9_ErrorsPropagate ==
    (phase = "detect" /\ thrown # NoError) =>
        /\ pc = "done"
        /\ raised = thrown
        /\ ~result.returned
        /\ ~final.returned
        /\ calls["displayDriftReport"] = 0
        /\ calls["question"] = 0
        /\ calls["cdk deploy"] = 0
        /\ analysis = NoAnalysis
        /\ stackCheck.outcome.throws => (calls["detect-stack-drift"] = 0 /\ runs = 0)
        /\ runs = 0 => (Polls = 0 /\ calls["describe-stack-resource-drifts"] = 0)
        /\ Polls > 0 => calls["describe-stack-resource-drifts"] = 0

C9_Witness ==
    /\ phase = "detect"
    /\ thrown # NoError
    /\ raised = thrown
    /\ calls["describe-stack-resource-drifts"] = 1

\* C10 - Classification completeness: total is the length of the input, drifted is the
\* number of deleted plus the number of modified resources, and a NOT_CHECKED resource
\* counts in total only: inSync counts the IN_SYNC ones, drifted the MODIFIED and
\* DELETED ones.
C10_ClassificationComplete ==
    analysis # NoAnalysis =>
        /\ analysis.total = Len(drifts)
        /\ analysis.drifted = Len(analysis.deleted) + Len(analysis.modified)
        /\ analysis.inSync = CountStatus(drifts, "IN_SYNC")
        /\ analysis.drifted = CountStatus(drifts, "MODIFIED") + CountStatus(drifts, "DELETED")
        /\ analysis.total = analysis.inSync + analysis.drifted + CountStatus(drifts, "NOT_CHECKED")

C10_Witness ==
    /\ analysis # NoAnalysis
    /\ Len(drifts) = 3
    /\ CountStatus(drifts, "NOT_CHECKED") = 1
    /\ CountStatus(drifts, "DELETED") = 1
    /\ CountStatus(drifts, "MODIFIED") = 1
    /\ analysis.total = 3
    /\ analysis.drifted = 2
    /\ analysis.inSync = 0

\* C11 (as claimed) - every analysis has total = inSync + drifted.
C11_TotalIsInSyncPlusDrifted ==
    analysis # NoAnalysis => analysis.total = analysis.inSync + analysis.drifted

\* C11 (amended) - every analysis has total = inSync + drifted + the number of
\* NOT_CHECKED resources of the input; so total = inSync + drifted holds exactly for
\* the inputs without a NOT_CHECKED resource, and inSync + drifted never exceeds total.
C11_TotalIsInSyncDriftedNotChecked ==
    analysis # NoAnalysis =>
        /\ analysis.total - (analysis.inSync + analysis.drifted)
              = CountStatus(drifts, "NOT_CHECKED")
        /\ analysis.inSync + analysis.drifted <= analysis.total
        /\ (analysis.total = analysis.inSync + analysis.drifted)
              <=> (\A i \in DOMAIN drifts : drifts[i].StackResourceDriftStatus # "NOT_CHECKED")

C11_Witness ==
    /\ analysis # NoAnalysis
    /\ Len(drifts) = 3
    /\ CountStatus(drifts, "NOT_CHECKED") = 2
    /\ analysis.total = 3
    /\ analysis.inSync + analysis.drifted = 1

\* The positions of ds with status st, and the k-th of them in input order.
PositionsOf(ds, st) == {i \in DOMAIN ds : ds[i].StackResourceDriftStatus = st}

KthPosition(ds, st, k) ==
    CHOOSE i \in PositionsOf(ds, st) :
        Cardinality({j \in PositionsOf(ds, st) : j <= i}) = k

IsOrderedSelection(out, ds, st) ==
    /\ Len(out) = Cardinality(PositionsOf(ds, st))
    /\ \A k \in DOMAIN out : out[k] = ds[KthPosition(ds, st, k)]

\* C12 - Order preservation: deleted is the input's DELETED entries and modified the
\* input's MODIFIED entries, each entry once and in input order, and no entry is in
\* both lists.
C12_OrderPreserving ==
    analysis # NoAnalysis =>
        /\ IsOrderedSelection(analysis.deleted, drifts, "DELETED")
        /\ IsOrderedSelection(analysis.modified, drifts, "MODIFIED")
        /\ \A a \in DOMAIN analysis.deleted : \A b \in DOMAIN analysis.modified :
              analysis.deleted[a] # analysis.modified[b]
        /\ \A a, b \in DOMAIN analysis.deleted :
              a # b => analysis.deleted[a] # analysis.deleted[b]
        /\ \A a, b \in DOMAIN analysis.modified :
              a # b => analysis.modified[a] # analysis.modified[b]

C12_Witness ==
    /\ analysis # NoAnalysis
    /\ Len(analysis.deleted) = 2
    /\ Len(analysis.modified) = 1
    /\ drifts[2].StackResourceDriftStatus = "MODIFIED"
    /\ analysis.deleted[1] = drifts[1]
    /\ analysis.deleted[2] = drifts[3]

\* The verification run of repairDrift completed: its last poll, made in the repair
\* phase, reported DETECTION_COMPLETE.
RepairRunCompleted ==
    phase = "repair" /\ waitLog # <<>> /\ lastPoll.DetectionStatus = "DETECTION_COMPLETE"

\* The redeploy command of repairDrift failed: no verification run was requested.
DeployFailed ==
    /\ phase = "repair"
    /\ pc = "done"
    /\ calls["cdk deploy"] = 1
    /\ calls["detect-stack-drift"] = 1

\* C14 - Repair re-verification: when the redeploy succeeded and the post-repair run
\* completed, repairDrift has returned true if the reported StackDriftStatus is IN_SYNC
\* and false for DRIFTED, UNKNOWN and NOT_CHECKED, and nothing was raised.
C14_RepairReverification ==
    RepairRunCompleted =>
        /\ pc = "done"
        /\ calls["cdk deploy"] = 1
        /\ runs = 2
        /\ final.returned
        /\ final.repairAttempted
        /\ final.repairSuccess <=> (lastPoll.StackDriftStatus = "IN_SYNC")
        /\ lastPoll.StackDriftStatus \in {"DRIFTED", "UNKNOWN", "NOT_CHECKED"}
              => final.repairSuccess = FALSE
        /\ thrown = NoError
        /\ raised = NoError

C14_Witness ==
    /\ RepairRunCompleted
    /\ lastPoll.StackDriftStatus = "UNKNOWN"
    /\ final.returned
    /\ final.repairSuccess = FALSE
    /\ raised = NoError

C16_RepairFailureReflected ==
    (phase = "repair" /\ thrown # NoError) =>
        /\ pc = "done"
        /\ raised = NoError
        /\ final.returned
        /\ final.repairAttempted = TRUE
        /\ final.repairSuccess = FALSE
        /\ final.report = result
        /\ result.returned
        /\ result.needsRepair
        /\ result.stackExists
        /\ result.fields = {"needsRepair", "stackExists", "driftStatus", "analysis", "drifts"}
        /\ entry = "main" => exitCode = 1

C16_Witness ==
    /\ phase = "repair"
    /\ thrown = DetectionTimeoutError
    /\ final.returned
    /\ final.repairAttempted
    /\ ~final.repairSuccess

\* The answers that mean yes: y or yes in any letter case.
YesAnswers == {"y", "Y", "yes", "YES", "Yes", "yEs", "yeS", "YEs", "yES", "YeS"}

\* C17 - detectAndReport asks the user exactly when analysis.drifted > 0; the returned
\* needsRepair is true exactly when drifted > 0 and the answer is y or yes in any
\* letter case; any other answer, the empty one too, gives needsRepair = false in a
\* normally returned result.
C17_PromptAndNeedsRepair ==
    /\ pc = "question" => (analysis.drifted > 0 /\ calls["question"] = 0)
    /\ calls["question"] <= 1
    /\ calls["question"] = 1 => (analysis.drifted > 0 /\ answer \in Answers)
    /\ (result.returned /\ result.stackExists) =>
          /\ calls["question"] = 1 <=> result.analysis.drifted > 0
          /\ result.needsRepair <=> (result.analysis.drifted > 0 /\ answer \in YesAnswers)
          /\ (calls["question"] = 1 /\ answer \notin YesAnswers) =>
                (result.needsRepair = FALSE /\ raised = NoError /\ thrown = NoError)
          /\ phase = "detect" => thrown = NoError

C17_Witness ==
    /\ result.returned
    /\ calls["question"] = 1
    /\ answer = "YES"
    /\ result.needsRepair
    /\ result.analysis.drifted > 0

\* C18 - Guaranteed release: the channel is open only while the question is pending;
\* once detectAndReport has returned or raised, on whatever path, the detector holds no
\* channel and every channel that was created has been closed.
C18_ChannelReleased ==
    /\ rl = "open" => pc = "question"
    /\ (pc \in {"done", "repairDrift"} \/ phase = "repair" \/ result.returned
        \/ raised # NoError) =>
           /\ rl = "undefined"
           /\ calls["close"] = calls["createInterface"]

C18_Witness ==
    /\ result.returned
    /\ calls["createInterface"] = 1
    /\ calls["close"] = 1
    /\ rl = "undefined"

\* C20 - Lazy, single channel: a channel is created only when askForRepair asks
\* (drifted > 0), at most one per call; on the absent-stack path, the drift-free path
\* and the error paths none was created; the detector holds at most one open channel,
\* and a request made while one is open would reuse it.
C20_LazySingleChannel ==
    /\ calls["createInterface"] <= 1
    /\ calls["createInterface"] - calls["close"] = (IF rl = "open" THEN 1 ELSE 0)
    /\ calls["createInterface"] = 1 =>
          (analysis # NoAnalysis /\ analysis.drifted > 0 /\ pc \notin {"idle", "getDriftDetails"})
    /\ (result.returned /\ ~result.stackExists) => calls["createInterface"] = 0
    /\ (result.returned /\ result.stackExists /\ result.analysis.drifted = 0)
          => calls["createInterface"] = 0
    /\ (phase = "detect" /\ thrown # NoError) => calls["createInterface"] = 0
    /\ createReadlineInterface(rl).rl = "open"
    /\ createReadlineInterface(rl).created <=> (rl = "undefined")

C20_Witness ==
    /\ rl = "open"
    /\ pc = "question"
    /\ calls["createInterface"] = 1
    /\ calls["close"] = 0
    /\ ~createReadlineInterface(rl).created

\* C19 - Idempotent close: a cleanup() call that follows another one, or that finds no
\* channel, closes nothing, raises nothing and leaves the detector as it was; two
\* calls in a row from any state give what one call gives; rl.close never ran more
\* often than channels were created.
C19_CloseCounts ==
    /\ calls["close"] <= calls["createInterface"]
    /\ calls["cleanup"] >= 1 =>
          /\ rl = "undefined"
          /\ calls["close"] = calls["createInterface"]
          /\ calls["close"] <= 1
    /\ cleanup(cleanup(rl).rl).rl = cleanup(rl).rl
    /\ cleanup(cleanup(rl).rl).closed = FALSE
    /\ rl = "undefined" => cleanup(rl) = [rl |-> "undefined", closed |-> FALSE]

C19_CleanupStep ==
    calls'["cleanup"] = calls["cleanup"] + 1 =>
        /\ rl' = "undefined"
        /\ raised' = raised
        /\ thrown' = thrown
        /\ result' = result
        /\ (rl = "undefined") => (rl' = rl /\ calls'["close"] = calls["close"])
        /\ (rl = "open") => calls'["close"] = calls["close"] + 1

C19_IdempotentClose == []C19_CloseCounts /\ [][C19_CleanupStep]_vars

C19_Witness ==
    /\ calls["cleanup"] = 2
    /\ calls["createInterface"] = 1
    /\ calls["close"] = 1
    /\ rl = "undefined"
    /\ raised = NoError

\* C21 - detectAndRepair invokes repairDrift exactly when the report it got says
\* needsRepair; then the final result has repairAttempted = true and repairSuccess is
\* what repairDrift returned (true only for a verification run that completed IN_SYNC);
\* otherwise both are false.  So repairAttempted implies needsRepair, repairSuccess
\* implies repairAttempted, and an absent stack gives false for all three.
C21_RepairIffNeedsRepair ==
    /\ (pc = "repairDrift" \/ phase = "repair" \/ calls["cdk deploy"] > 0) =>
          (result.returned /\ result.needsRepair)
    /\ final.returned =>
          /\ final.report = result
          /\ final.repairAttempted <=> result.needsRepair
          /\ final.repairAttempted <=> (calls["cdk deploy"] = 1)
          /\ final.repairAttempted <=> (phase = "repair")
          /\ final.repairSuccess =>
                /\ final.repairAttempted
                /\ thrown = NoError
                /\ lastPoll.DetectionStatus = "DETECTION_COMPLETE"
                /\ lastPoll.StackDriftStatus = "IN_SYNC"
          /\ (final.repairAttempted /\ thrown # NoError) => ~final.repairSuccess
          /\ ~result.stackExists =>
                (~result.needsRepair /\ ~final.repairAttempted /\ ~final.repairSuccess)

C21_Witness ==
    /\ final.returned
    /\ final.repairAttempted
    /\ final.repairSuccess
    /\ result.needsRepair
    /\ calls["cdk deploy"] = 1

\* C22 (as claimed) - the CLI driver exits with 0 exactly when the stack exists and is
\* either drift-free (no drifted resource) or was successfully repaired; in every other
\* outcome, and whenever detectAndRepair raised, it exits with 1.
C22_ExitZeroIffDriftFreeOrRepaired ==
    (entry = "main" /\ pc = "done") =>
        /\ exitCode \in {0, 1}
        /\ raised # NoError => exitCode = 1
        /\ exitCode = 0 <=>
              /\ final.returned
              /\ result.stackExists
              /\ (result.analysis.drifted = 0 \/ final.repairSuccess)

\* C22 (amended) - the CLI driver exits with 0 exactly when the stack exists and
\* either no repair was requested (the stack is drift-free, or the user declined the
\* repair of a drifted stack) or the repair succeeded; in every other outcome, and
\* whenever detectAndRepair raised, it exits with 1.
C22_ExitZeroIffNoRepairPendingOrRepaired ==
    (entry = "main" /\ pc = "done") =>
        /\ exitCode \in {0, 1}
        /\ raised # NoError => (exitCode = 1 /\ ~final.returned)
        /\ exitCode = 0 <=>
              /\ final.returned
              /\ result.stackExists
              /\ \/ result.analysis.drifted = 0
                 \/ (result.analysis.drifted > 0 /\ answer \notin YesAnswers)
                 \/ final.repairSuccess
        /\ (final.returned /\ final.repairAttempted /\ ~final.repairSuccess) => exitCode = 1
        /\ (final.returned /\ ~result.stackExists) => exitCode = 1

C22_Witness ==
    /\ entry = "main"
    /\ pc = "done"
    /\ exitCode = 0
    /\ result.analysis.drifted > 0
    /\ answer = "n"
    /\ ~final.repairAttempted

\* A run of the CLI driver in which every external call returns and the user answers:
\* whatever step is possible is eventually taken.
FairSpec == Spec /\ WF_vars(Next)

\* The commands and polls one detectAndRepair invocation has issued so far.
C23_Budget ==
    entry = "main" =>
        /\ calls["describe-stacks"] <= 1
        /\ calls["detect-stack-drift"] <= 2
        /\ runs <= 2
        /\ phase = "detect" => runs <= 1
        /\ runs = 2 => calls["cdk deploy"] = 1
        /\ Polls <= 30
        /\ Sleeps <= 30
        /\ waitLog # <<>> => \A i \in DOMAIN waitLog : waitLog[i].id = runs
        /\ calls["describe-stack-resource-drifts"] <= 1
        /\ calls["question"] <= 1
        /\ calls["cdk deploy"] <= 1

\* C23 - No unbounded retry: one detectAndRepair invocation checks existence at most
\* once, starts at most two detection runs (the second only after the redeploy), polls
\* a run at most 30 times, fetches details at most once and redeploys at most once;
\* when every external call returns and the user answers, the invocation ends.
C23_NoUnboundedRetry ==
    /\ []C23_Budget
    /\ (entry = "main") ~> (pc = "done" /\ exitCode \in {0, 1})

C23_Witness ==
    /\ entry = "main"
    /\ pc = "done"
    /\ runs = 2
    /\ Polls = 30
    /\ calls["cdk deploy"] = 1
    /\ calls["describe-stack-resource-drifts"] = 1

C24_Gate ==
    /\ (pc = "repairDrift" \/ phase = "repair" \/ calls["cdk deploy"] > 0) =>
          /\ entry = "main"
          /\ calls["question"] = 1
          /\ answer \in YesAnswers
    /\ (calls["question"] = 0 \/ answer \notin YesAnswers) => calls["cdk deploy"] = 0
    /\ calls["cdk deploy"] <= calls["question"]

C24_Step ==
    calls'["cdk deploy"] # calls["cdk deploy"] =>
        /\ pc = "repairDrift"
        /\ calls["question"] = 1
        /\ answer \in YesAnswers
        /\ calls'["cdk deploy"] = 1

\* C24 - Human-in-the-loop gate: the redeploy is issued only by repairDrift, only after
\* the user answered yes to the repair prompt of this run, and at most once; no other
\* step (existence check, detection start, poll, detail fetch, analysis, report) issues it.
C24_HumanInTheLoopGate == []C24_Gate /\ [][C24_Step]_vars

C24_Witness ==
    /\ calls["cdk deploy"] = 1
    /\ calls["question"] = 1
    /\ answer = "y"
    /\ pc = "startDriftDetection"

C25_ReportLeavesArguments ==
    LET shown == displayDriftReport(driftStatus, analysis, rl)
    IN /\ shown.driftStatus = driftStatus
       /\ shown.analysis = analysis
       /\ shown.rl = rl
       /\ shown.queries = 0
       /\ pc = "question" =>
             /\ driftStatus = lastPoll
             /\ analysis = analyzeDrifts(drifts)
             /\ calls["displayDriftReport"] = 1
       /\ (result.returned /\ result.stackExists) =>
             /\ result.analysis = analyzeDrifts(result.drifts)
             /\ calls["displayDriftReport"] = 1
             /\ calls["describe-stack-resource-drifts"] = 1

C25_ReportStep ==
    calls'["displayDriftReport"] # calls["displayDriftReport"] =>
        /\ driftStatus' = driftStatus
        /\ analysis' = analyzeDrifts(drifts')
        /\ calls'["describe-stacks"] = calls["describe-stacks"]
        /\ calls'["detect-stack-drift"] = calls["detect-stack-drift"]
        /\ calls'["describe-stack-resource-drifts"] = calls["describe-stack-resource-drifts"] + 1
        /\ calls'["cdk deploy"] = calls["cdk deploy"]
        /\ (rl' # rl) => calls'["createInterface"] = calls["createInterface"] + 1

\* C25 - displayDriftReport is purely observational: the status and the analysis the
\* flow goes on with after the report are the ones handed to it (counts, deleted and
\* modified lists unchanged), the channel is untouched and no external query is made
\* by the report.
C25_ReportObservational == []C25_ReportLeavesArguments /\ [][C25_ReportStep]_vars

C25_Witness ==
    /\ pc = "question"
    /\ calls["displayDriftReport"] = 1
    /\ Len(analysis.deleted) = 1
    /\ Len(analysis.modified) = 2
    /\ analysis.inSync = 0

(***************************************************************************)
(* Callers of the detector: TestDriftHelper.verifyStackState and the       *)
(* postDeployVerify script.  They run on the detector's state; entry names *)
(* the caller.                                                             *)
(***************************************************************************)
HelperEntries == {"verifyStackState", "ensureStackExists", "postDeployVerify"}

\* new Error('スタックが存在しません。\nまずデプロイを実行してください: npm run deploy:safe')
StackMissingError ==
    [name |-> "Error", message |-> <<"stack-is-missing", "npm", "run", "deploy:safe">>]

\* new Error('スタック状態の確認に失敗しました。\n...')
StateCheckFailedError ==
    [name |-> "Error", message |-> <<"state-check-failed">>]

\* verifyStackState: the catch block.  The word "stack-is-missing" stands for the text
\* 'スタックが存在しません' and "state-check-failed" for 'スタック状態の確認に失敗しました'.
verifyStackStateCatch_swallowsOthers(error) ==
    IF Includes(error.message, <<"stack-is-missing">>)
    THEN [throws |-> TRUE, error |-> error]
    ELSE [throws |-> FALSE, error |-> NoError]

verifyStackStateCatch(error) ==
    IF Includes(error.message, <<"stack-is-missing">>)
    THEN [throws |-> TRUE, error |-> error]
    ELSE [throws |-> TRUE, error |-> StateCheckFailedError]

\* verifyStackState, given what describe-stacks answered.
verifyStackState(resp) ==
    LET o == checkStackExists(resp)
        inTry == IF o.throws THEN o.error
                 ELSE IF ~o.value THEN StackMissingError
                 ELSE NoError
    IN IF inTry = NoError THEN [throws |-> FALSE, error |-> NoError]
       ELSE verifyStackStateCatch(inTry)

\* ensureStackExists: the catch block logs the error and returns false.
ensureStackExistsCatch_rethrow(error) ==
    [throws |-> TRUE, value |-> FALSE, error |-> error]

ensureStackExistsCatch(error) ==
    [throws |-> FALSE, value |-> FALSE, error |-> NoError]

\* ensureStackExists, given what describe-stacks answered.
ensureStackExists(resp) ==
    LET o == checkStackExists(resp)
    IN IF o.throws THEN ensureStackExistsCatch(o.error)
       ELSE [throws |-> FALSE, value |-> o.value, error |-> NoError]

\* postDeployVerify: the evaluation of the result (lines 42-56).
PostDeployVerdict_modifiedFails(status, an) ==
    IF status.StackDriftStatus = "IN_SYNC" THEN "return"
    ELSE IF Len(an.deleted) > 0 \/ Len(an.modified) > 0 THEN "exit1"
    ELSE "return"

PostDeployVerdict(status, an) ==
    IF status.StackDriftStatus = "IN_SYNC" THEN "return"
    ELSE IF Len(an.deleted) > 0 THEN "exit1"
    ELSE "return"

\* process.exit(code): the process ends at once, the finally block does not run.
ProcessExit(code, c) ==
    /\ pc' = "done"
    /\ exitCode' = code
    /\ calls' = c
    /\ UNCHANGED <<phase, rl, result, final, raised>>

\* postDeployVerify: the catch block logs the error and exits with 1.
PostDeployCatch(err, c) ==
    /\ thrown' = err
    /\ ProcessExit(1, c)

\* postDeployVerify returns: the finally block runs cleanup(), the process ends by itself.
PostDeployReturn(c) ==
    /\ pc' = "done"
    /\ exitCode' = 0
    /\ rl' = cleanup(rl).rl
    /\ calls' = IF cleanup(rl).closed THEN Bump(Bump(c, "cleanup"), "close")
                ELSE Bump(c, "cleanup")
    /\ UNCHANGED <<phase, result, final, raised>>

HelperCall ==
    /\ pc = "idle"
    /\ \E e \in HelperEntries : entry' = e
    /\ pc' = "checkStackExists"
    /\ UNCHANGED <<phase, rl, attempts, detectionId, lastPoll, driftStatus, drifts, analysis,
                   answer, result, final, thrown, raised, exitCode, waitLog, calls, runs,
                   stackCheck>>
    /\ UNCHANGED <<callerVars, scriptVars>>

\* TestDriftHelper.verifyStackState(): the whole method.
VerifyStackState ==
    /\ pc = "checkStackExists"
    /\ entry = "verifyStackState"
    /\ \E resp \in DescribeStacksResponses :
         LET o == checkStackExists(resp)
             r == verifyStackState(resp)
         IN /\ stackCheck' = [called |-> TRUE, resp |-> resp, outcome |-> o]
            /\ thrown' = IF o.throws THEN o.error ELSE thrown
            /\ raised' = IF r.throws THEN r.error ELSE raised
    /\ pc' = "done"
    /\ calls' = Bump(calls, "describe-stacks")
    /\ UNCHANGED <<entry, phase, rl, attempts, detectionId, lastPoll, driftStatus, drifts,
                   analysis, answer, result, final, exitCode, waitLog, runs>>
    /\ UNCHANGED <<callerVars, scriptVars>>

\* TestDriftHelper.ensureStackExists(): the whole method.
EnsureStackExists ==
    /\ pc = "checkStackExists"
    /\ entry = "ensureStackExists"
    /\ \E resp \in DescribeStacksResponses :
         LET o == checkStackExists(resp)
             r == ensureStackExists(resp)
         IN /\ stackCheck' = [called |-> TRUE, resp |-> resp, outcome |-> o]
            /\ thrown' = IF o.throws THEN o.error ELSE thrown
            /\ raised' = IF r.throws THEN r.error ELSE raised
            /\ helperReturn' = IF r.throws THEN helperReturn
                               ELSE [returned |-> TRUE, value |-> r.value]
    /\ pc' = "done"
    /\ calls' = Bump(calls, "describe-stacks")
    /\ UNCHANGED <<entry, phase, rl, attempts, detectionId, lastPoll, driftStatus, drifts,
                   analysis, answer, result, final, exitCode, waitLog, runs, continueAnswer>>
    /\ UNCHANGED scriptVars

\* postDeployVerify: checkStackExists() and the exit for an absent stack.
PostDeployCheck ==
    /\ pc = "checkStackExists"
    /\ entry = "postDeployVerify"
    /\ \E resp \in DescribeStacksResponses :
         LET o == checkStackExists(resp)
             c == Bump(calls, "describe-stacks")
         IN /\ stackCheck' = [called |-> TRUE, resp |-> resp, outcome |-> o]
            /\ IF o.throws
               THEN PostDeployCatch(o.error, c)
               ELSE /\ thrown' = thrown
                    /\ IF ~o.value
                       THEN ProcessExit(1, c)
                       ELSE Goto("startDriftDetection", c)
    /\ UNCHANGED <<entry, attempts, detectionId, lastPoll, driftStatus, drifts, analysis,
                   answer, waitLog, runs>>
    /\ UNCHANGED <<callerVars, scriptVars>>

\* postDeployVerify: startDriftDetection() and the entry of waitForDriftDetection.
PostDeployStart ==
    /\ pc = "startDriftDetection"
    /\ entry = "postDeployVerify"
    /\ \/ /\ runs' = runs + 1
          /\ detectionId' = PolledId(runs + 1, detectionId)
          /\ attempts' = 0
          /\ lastPoll' = NoStatus
          /\ waitLog' = <<>>
          /\ thrown' = thrown
          /\ Goto("waitForDriftDetection", Bump(calls, "detect-stack-drift"))
       \/ /\ \E m \in ErrorMessages :
               PostDeployCatch(CommandError(m), Bump(calls, "detect-stack-drift"))
          /\ UNCHANGED <<runs, detectionId, attempts, lastPoll, waitLog>>
    /\ UNCHANGED <<entry, driftStatus, drifts, analysis, answer, stackCheck>>
    /\ UNCHANGED <<callerVars, scriptVars>>

\* postDeployVerify inside waitForDriftDetection: one pass of the loop body.
PostDeployPoll ==
    /\ pc = "waitForDriftDetection"
    /\ entry = "postDeployVerify"
    /\ LoopCondition(attempts)
    /\ \E o \in PollOutcomes :
         LET b == PollBranch(o)
         IN /\ lastPoll' = o.status
            /\ waitLog' = Append(waitLog, [ev |-> "poll", id |-> detectionId, ms |-> 0,
                                           error |-> o.error])
            /\ CASE b.do = "return" ->
                      /\ driftStatus' = b.value
                      /\ thrown' = thrown
                      /\ Goto("getDriftDetails", calls)
                 [] b.do = "throw" ->
                      /\ driftStatus' = driftStatus
                      /\ PostDeployCatch(b.error, calls)
                 [] OTHER ->
                      /\ driftStatus' = driftStatus
                      /\ thrown' = thrown
                      /\ Goto("sleep", calls)
    /\ UNCHANGED <<entry, attempts, detectionId, drifts, analysis, answer, runs, stackCheck>>
    /\ UNCHANGED <<callerVars, scriptVars>>

PostDeploySleep ==
    /\ pc = "sleep"
    /\ entry = "postDeployVerify"
    /\ attempts' = attempts + 1
    /\ waitLog' = Append(waitLog, [ev |-> "sleep", id |-> detectionId,
                                   ms |-> SleepMs(attempts), error |-> NoError])
    /\ Goto("waitForDriftDetection", calls)
    /\ UNCHANGED <<entry, detectionId, lastPoll, driftStatus, drifts, analysis, answer,
                   thrown, runs, stackCheck>>
    /\ UNCHANGED <<callerVars, scriptVars>>

PostDeployTimeout ==
    /\ pc = "waitForDriftDetection"
    /\ entry = "postDeployVerify"
    /\ ~LoopCondition(attempts)
    /\ PostDeployCatch(DetectionTimeoutError, calls)
    /\ UNCHANGED <<entry, attempts, detectionId, lastPoll, driftStatus, drifts, analysis,
                   answer, waitLog, runs, stackCheck>>
    /\ UNCHANGED <<callerVars, scriptVars>>

\* postDeployVerify: getDriftDetails, analyzeDrifts, displayDriftReport and the
\* evaluation of the result.
PostDeployDetails ==
    /\ pc = "getDriftDetails"
    /\ entry = "postDeployVerify"
    /\ \/ \E ds \in DriftLists :
            LET shown == displayDriftReport(driftStatus, analyzeDrifts(ds), rl)
                c == Bump(Bump(calls, "describe-stack-resource-drifts"), "displayDriftReport")
            IN /\ drifts' = ds
               /\ analysis' = shown.analysis
               /\ driftStatus' = shown.driftStatus
               /\ thrown' = thrown
               /\ IF PostDeployVerdict(shown.driftStatus, shown.analysis) = "exit1"
                  THEN ProcessExit(1, c)
                  ELSE PostDeployReturn(c)
       \/ /\ \E m \in ErrorMessages :
               PostDeployCatch(CommandError(m), Bump(calls, "describe-stack-resource-drifts"))
          /\ UNCHANGED <<drifts, analysis, driftStatus>>
    /\ attempts' = 0
    /\ waitLog' = <<>>
    /\ UNCHANGED <<entry, detectionId, lastPoll, answer, runs, stackCheck>>
    /\ UNCHANGED <<callerVars, scriptVars>>

HelperNext ==
    \/ HelperCall
    \/ VerifyStackState
    \/ EnsureStackExists
    \/ PostDeployCheck
    \/ PostDeployStart
    \/ PostDeployPoll
    \/ PostDeploySleep
    \/ PostDeployTimeout
    \/ PostDeployDetails

HelperSpec == Init /\ [][HelperNext]_vars

StackAbsent ==
    \/ NotFoundFailure(stackCheck.resp)
    \/ (stackCheck.resp.ok /\ stackCheck.resp.stacks = 0)

DetectionCompleted ==
    /\ lastPoll.DetectionStatus = "DETECTION_COMPLETE"
    /\ driftStatus = lastPoll
    /\ calls["describe-stack-resource-drifts"] = 1
    /\ calls["displayDriftReport"] = 1

MaxStatements == 3

Statements == {"sql1", "sql2", "sql3"}

StatementLists == UNION {[1..n -> Statements] : n \in 0..MaxStatements}

\* waitForQueryCompletion returns one of these states.
FinalStates == {"SUCCEEDED", "FAILED", "CANCELLED"}

\* new Error(`クエリタイムアウト、実行ID: ...`) and an error of client.send.
QueryErrors == {[name |-> "Error", message |-> <<"query-timeout">>],
                [name |-> "InvalidRequestException", message |-> <<"Entity", "Not", "Found">>]}

\* What the Athena service makes of one statement: a final state, or a failure of the
\* call (an error of client.send, or the wait exceeding maxWaitTimeMs).
QueryOutcomes ==
    {[throws |-> FALSE, state |-> st, error |-> NoError] : st \in FinalStates}
    \cup {[throws |-> TRUE, state |-> "<none>", error |-> e] : e \in QueryErrors}

\* executeQuery(sql) with waitForCompletion = true: the QueryResult it returns, or the
\* error it rethrows.  id is the QueryExecutionId the service gave.
executeQuery(sql, id, o) ==
    IF o.throws THEN [throws |-> TRUE, error |-> o.error, value |-> <<>>]
    ELSE IF o.state = "SUCCEEDED"
    THEN [throws |-> FALSE, error |-> NoError,
          value |-> [executionId |-> id, state |-> o.state,
                     fields |-> {"executionId", "state", "resultData", "columnInfo"}]]
    ELSE [throws |-> FALSE, error |-> NoError,
          value |-> [executionId |-> id, state |-> o.state,
                     fields |-> {"executionId", "state", "error"}]]

\* executeMultipleQueries: if (result.state !== 'SUCCEEDED') break
StopsAfter_onlyFailed(r) == r.state = "FAILED"

StopsAfter(r) == r.state # "SUCCEEDED"

\* executeMultipleQueries(sqlStatements) is called; an empty list returns at once.
ExecuteMultipleQueries ==
    /\ athenaPc = "idle"
    /\ \E l \in StatementLists :
         /\ sqlStatements' = l
         /\ athenaPc' = IF l = <<>> THEN "returned" ELSE "loop"
    /\ results' = <<>>
    /\ UNCHANGED <<queryLog, athenaError>>
    /\ UNCHANGED exceptAthena

\* One pass of the for loop: executeQuery(sql), results.push(result), the break test;
\* after the last statement, or after the break, the function returns results.
ExecuteQuery ==
    /\ athenaPc = "loop"
    /\ Len(queryLog) < Len(sqlStatements)
    /\ \E o \in QueryOutcomes :
         LET sql == sqlStatements[Len(queryLog) + 1]
             r == executeQuery(sql, Len(queryLog) + 1, o)
         IN /\ queryLog' = Append(queryLog, sql)
            /\ IF r.throws
               THEN /\ athenaError' = r.error
                    /\ athenaPc' = "thrown"
                    /\ results' = results
               ELSE /\ athenaError' = athenaError
                    /\ results' = Append(results, r.value)
                    /\ athenaPc' = IF StopsAfter(r.value) \/ Len(queryLog) + 1 = Len(sqlStatements)
                                   THEN "returned" ELSE "loop"
    /\ UNCHANGED sqlStatements
    /\ UNCHANGED exceptAthena

AthenaNext ==
    \/ ExecuteMultipleQueries
    \/ ExecuteQuery

AthenaSpec == Init /\ [][AthenaNext]_vars

\* C28 - executeMultipleQueries hands the statements to executeQuery in input order,
\* one at a time; the results are one per executed statement, every result but possibly
\* the last is SUCCEEDED, a result that is not SUCCEEDED ends the call, and the list
\* returned is complete only if every statement succeeded.
C28_StopsAtFirstFailure ==
    /\ Len(queryLog) <= Len(sqlStatements)
    /\ \A i \in DOMAIN queryLog : queryLog[i] = sqlStatements[i]
    /\ Len(results) <= Len(queryLog)
    /\ athenaError = NoError => Len(results) = Len(queryLog)
    /\ \A i \in DOMAIN results :
          /\ results[i].executionId = i
          /\ i < Len(results) => results[i].state = "SUCCEEDED"
          /\ results[i].state # "SUCCEEDED" =>
                (i = Len(results) /\ i = Len(queryLog) /\ athenaPc = "returned")
    /\ athenaPc = "returned" =>
          \/ Len(results) = Len(sqlStatements)
          \/ (results # <<>> /\ results[Len(results)].state # "SUCCEEDED")
    /\ athenaPc = "loop" => \A i \in DOMAIN results : results[i].state = "SUCCEEDED"

C28_Witness ==
    /\ athenaPc = "returned"
    /\ Len(sqlStatements) = 3
    /\ Len(results) = 2
    /\ results[1].state = "SUCCEEDED"
    /\ results[2].state = "CANCELLED"
    /\ queryLog = <<sqlStatements[1], sqlStatements[2]>>

(***************************************************************************)
(* The demo script: run() and main()                                       *)
(***************************************************************************)
\* main(): its statements in program order.  The descriptions are, in the source,
\* 事前クリーンアップ, TypeScript ビルド, CDK デプロイ, ドリフト検証, テスト環境セットアップ,
\* 環境検証, テストスイート実行, (HTML レポート), 事後クリーンアップ.
DemoProgram ==
    << [kind |-> "run", command |-> "pnpm run cleanup", desc |-> "pre-cleanup",
        interactive |-> TRUE],
       [kind |-> "run", command |-> "pnpm run build", desc |-> "build",
        interactive |-> FALSE],
       [kind |-> "run", command |-> "pnpm run deploy", desc |-> "deploy",
        interactive |-> TRUE],
       [kind |-> "run", command |-> "pnpm run drift:verify", desc |-> "drift verification",
        interactive |-> FALSE],
       [kind |-> "run", command |-> "pnpm run setup", desc |-> "setup",
        interactive |-> FALSE],
       [kind |-> "run", command |-> "pnpm run validate", desc |-> "validation",
        interactive |-> FALSE],
       [kind |-> "run", command |-> "pnpm run test:sequential", desc |-> "test suite",
        interactive |-> FALSE],
       [kind |-> "report", command |-> "<open>", desc |-> "html report",
        interactive |-> FALSE],
       [kind |-> "run", command |-> "pnpm run cleanup", desc |-> "post-cleanup",
        interactive |-> TRUE] >>

DemoDone == Len(DemoProgram) + 1

Platforms == {"win32", "darwin", "linux"}

\* The command that opens the report, by process.platform.
OpenCommand(pf) ==
    IF pf = "win32" THEN "cmd /c start"
    ELSE IF pf = "darwin" THEN "open"
    ELSE "xdg-open"

\* What execSync returns for a command that succeeded (stdout), and String.trim.
Outputs == {"", " ", "ok"}

Trim(out) == IF out = " " THEN "" ELSE out

\* execSync: the command succeeds with some output, or fails (execSync throws).  With
\* stdio inherited nothing is captured.
ExecOutcomes(interactive) ==
    {[ok |-> TRUE, out |-> o] : o \in (IF interactive THEN {""} ELSE Outputs)}
    \cup {[ok |-> FALSE, out |-> ""]}

\* run: the catch block logs the failure and throws the error again.
RunCatch_returnsFalse == [rethrow |-> FALSE]

RunCatch == [rethrow |-> TRUE]

\* run(command, desc, interactive): what it logs, and whether it throws.
run(step, o) ==
    LET start == <<[ev |-> "start", command |-> step.command]>>
    IN IF o.ok
       THEN [throws |-> FALSE,
             log |-> start
                     \o (IF ~step.interactive /\ Trim(o.out) # ""
                         THEN <<[ev |-> "output", command |-> step.command]>> ELSE <<>>)
                     \o <<[ev |-> "done", command |-> step.command]>>]
       ELSE [throws |-> RunCatch.rethrow,
             log |-> start \o <<[ev |-> "fail", command |-> step.command]>>]

\* The statement at demoPc ended: an error rejects main(), whose catch handler exits
\* with 1; after the last statement the process ends by itself.
DemoAdvance(throws) ==
    /\ demoPc' = IF throws THEN DemoDone ELSE demoPc + 1
    /\ demoExit' = IF throws THEN 1
                   ELSE IF demoPc + 1 = DemoDone THEN 0
                   ELSE demoExit

\* The demo script is started.
DemoStart ==
    /\ demoPc = 0
    /\ demoPc' = 1
    /\ \E pf \in Platforms : platform' = pf
    /\ UNCHANGED <<demoLog, demoExit>>
    /\ UNCHANGED exceptDemo

\* main(): one run(...) statement.
Run ==
    /\ demoPc \in DOMAIN DemoProgram
    /\ DemoProgram[demoPc].kind = "run"
    /\ \E o \in ExecOutcomes(DemoProgram[demoPc].interactive) :
         LET r == run(DemoProgram[demoPc], o)
         IN /\ demoLog' = demoLog \o r.log
            /\ DemoAdvance(r.throws)
    /\ UNCHANGED platform
    /\ UNCHANGED exceptDemo

\* main(): the report is opened in the browser if the file exists.
OpenReport ==
    /\ demoPc \in DOMAIN DemoProgram
    /\ DemoProgram[demoPc].kind = "report"
    /\ \/ /\ demoLog' = demoLog
          /\ DemoAdvance(FALSE)
       \/ \E ok \in BOOLEAN :
            /\ demoLog' = Append(demoLog, [ev |-> IF ok THEN "opened" ELSE "fail",
                                           command |-> OpenCommand(platform)])
            /\ DemoAdvance(~ok)
    /\ UNCHANGED platform
    /\ UNCHANGED exceptDemo

DemoNext ==
    \/ DemoStart
    \/ Run
    \/ OpenReport

DemoSpec == Init /\ [][DemoNext]_vars

IsStart(e) == e.ev = "start"

IsDone(e) == e.ev = "done"

Started == SelectSeq(demoLog, IsStart)

Succeeded == SelectSeq(demoLog, IsDone)

\* C29 - The demo flow starts its steps in the order pre-cleanup, build, deploy, drift
\* verification, setup, validation, test suite, post-cleanup; a step is started only
\* when every step before it has succeeded; a failure is the last thing the flow does:
\* the exit code is 1 and no later step is started; the flow ends with exit code 0 only
\* after all eight steps succeeded.
C29_FixedOrderAbortOnFailure ==
    LET order == <<"pnpm run cleanup", "pnpm run build", "pnpm run deploy",
                   "pnpm run drift:verify", "pnpm run setup", "pnpm run validate",
                   "pnpm run test:sequential", "pnpm run cleanup">>
    IN /\ Len(Started) <= 8
       /\ \A i \in DOMAIN Started : Started[i].command = order[i]
       /\ \A i \in DOMAIN Succeeded : Succeeded[i].command = order[i]
       /\ Len(Started) - Len(Succeeded) \in {0, 1}
       /\ \A i \in DOMAIN demoLog :
             /\ demoLog[i].ev = "fail" =>
                   (i = Len(demoLog) /\ demoExit = 1 /\ demoPc = 10)
             /\ (demoLog[i].ev = "start" /\ i > 1) => demoLog[i - 1].ev \in {"done", "opened"}
       /\ Len(Started) > Len(Succeeded) =>
             (demoLog[Len(demoLog)].ev = "fail" /\ demoExit = 1)
       /\ demoExit = 1 <=> (demoLog # <<>> /\ demoLog[Len(demoLog)].ev = "fail")
       /\ demoExit = 0 <=> (demoPc = 10 /\ Len(Succeeded) = 8)
       /\ demoExit \in {-1, 0, 1}
       /\ demoPc < 10 => demoExit = -1

C29_Witness ==
    /\ demoExit = 1
    /\ demoPc = 10
    /\ Len(Started) = 4
    /\ Len(Succeeded) = 3
    /\ demoLog[Len(demoLog)] = [ev |-> "fail", command |-> "pnpm run drift:verify"]

(***************************************************************************)
(* CustomSequencer: sort and getTestOrder                                  *)
(***************************************************************************)
MaxTests == 3

\* A path is the sequence of its characters; the ending ".test.ts" is one element.
Digits == {"0", "1", "2", "3", "4", "5", "6", "7", "8", "9"}

DigitValue(c) ==
    CASE c = "0" -> 0 [] c = "1" -> 1 [] c = "2" -> 2 [] c = "3" -> 3 [] c = "4" -> 4
      [] c = "5" -> 5 [] c = "6" -> 6 [] c = "7" -> 7 [] c = "8" -> 8 [] OTHER -> 9

\* Where the repository is checked out: /w, or /1-r (a directory whose name starts
\* with a number and a hyphen).
Roots == { <<"/", "w">>, <<"/", "1", "-", "r">> }

\* The directories of the repository that hold test files: a/ and b/.
TestDirs == { <<"/", "a", "/">>, <<"/", "b", "/">> }

\* File names: 01-a.test.ts, 02-b.test.ts, 10-c.test.ts and h.test.ts.
FileNames ==
    { <<"0", "1", "-", "a", ".test.ts">>,
      <<"0", "2", "-", "b", ".test.ts">>,
      <<"1", "0", "-", "c", ".test.ts">>,
      <<"h", ".test.ts">> }

TestPaths(root) == {root \o d \o f : d \in TestDirs, f \in FileNames}

\* The arrays Jest hands to sort: tests of one checkout, with distinct paths.
TestLists(root) ==
    UNION {{l \in [1..n -> [path : TestPaths(root)]] :
              \A i, j \in 1..n : i # j => l[i] # l[j]} : n \in 0..MaxTests}

\* The last position of the run of digits that starts at position i.
RECURSIVE RunEnd(_, _)
RunEnd(p, i) == IF i < Len(p) /\ p[i + 1] \in Digits THEN RunEnd(p, i + 1) ELSE i

\* parseInt(digits, 10) for the digits at positions i..j.
RECURSIVE ParseInt(_, _, _)
ParseInt(p, i, j) == IF i > j THEN 0 ELSE ParseInt(p, i, j - 1) * 10 + DigitValue(p[j])

\* /(\d+)-.*\.test\.ts$/ matches with the group starting at position i.
MatchesAt(p, i) ==
    /\ p[i] \in Digits
    /\ RunEnd(p, i) + 1 < Len(p)
    /\ p[RunEnd(p, i) + 1] = "-"
    /\ p[Len(p)] = ".test.ts"

\* getTestOrder(testPath): String.match takes the leftmost match.
getTestOrder(p) ==
    IF \E i \in DOMAIN p : MatchesAt(p, i)
    THEN LET i == CHOOSE k \in DOMAIN p :
                     MatchesAt(p, k) /\ \A m \in DOMAIN p : MatchesAt(p, m) => k <= m
         IN ParseInt(p, i, RunEnd(p, i))
    ELSE 999

\* The collation rank of a character: punctuation, then digits, then letters.
Rank(c) ==
    CASE c = "-" -> 1
      [] c = ".test.ts" -> 2
      [] c = "/" -> 3
      [] c \in Digits -> 10 + DigitValue(c)
      [] c = "a" -> 21
      [] c = "b" -> 22
      [] c = "c" -> 23
      [] c = "h" -> 28
      [] c = "r" -> 38
      [] c = "w" -> 43
      [] OTHER -> 50

\* a.localeCompare(b)
RECURSIVE localeCompare(_, _)
localeCompare(a, b) ==
    IF a = <<>> /\ b = <<>> THEN 0
    ELSE IF a = <<>> THEN -1
    ELSE IF b = <<>> THEN 1
    ELSE IF Rank(Head(a)) < Rank(Head(b)) THEN -1
    ELSE IF Rank(Head(a)) > Rank(Head(b)) THEN 1
    ELSE localeCompare(Tail(a), Tail(b))

\* The comparator sort passes to Array.prototype.sort.
Comparator(testA, testB) ==
    LET orderA == getTestOrder(testA.path)
        orderB == getTestOrder(testB.path)
    IN IF orderA # orderB THEN orderA - orderB
       ELSE localeCompare(testA.path, testB.path)

\* Array.prototype.sort(comparator): a stable sort.
RECURSIVE Insert(_, _)
Insert(l, t) ==
    IF l = <<>> THEN <<t>>
    ELSE IF Comparator(t, Head(l)) < 0 THEN <<t>> \o l
    ELSE <<Head(l)>> \o Insert(Tail(l), t)

RECURSIVE sort(_)
sort(l) == IF l = <<>> THEN <<>> ELSE Insert(sort(SubSeq(l, 1, Len(l) - 1)), l[Len(l)])

\* Jest calls sort(tests).
Sort ==
    /\ tests = <<>>
    /\ \E root \in Roots : \E l \in TestLists(root) :
         /\ tests' = l
         /\ sorted' = sort(l)
    /\ UNCHANGED exceptSequencer

SequencerNext == Sort

SequencerSpec == Init /\ [][SequencerNext]_vars

\* The file name of a path: what follows the last "/".
RECURSIVE FileName(_)
FileName(p) ==
    IF \E i \in DOMAIN p : p[i] = "/" THEN FileName(Tail(p)) ELSE p

\* The file name has the form NN-*.test.ts, and the number NN.
HasPrefix(p) == FileName(p)[1] \in Digits /\ MatchesAt(FileName(p), 1)

Prefix(p) == ParseInt(FileName(p), 1, RunEnd(FileName(p), 1))

\* C30 (as claimed) - sort returns the tests it was given ordered by ascending numeric
\* file-name prefix: a file with a smaller prefix comes before one with a larger
\* prefix, files without a prefix come after all prefixed files, and two files of equal
\* order are in path order.
C30_OrderedByPrefix ==
    /\ Len(sorted) = Len(tests)
    /\ {sorted[i] : i \in DOMAIN sorted} = {tests[i] : i \in DOMAIN tests}
    /\ \A i, j \in DOMAIN sorted :
          i < j =>
             LET a == sorted[i].path
                 b == sorted[j].path
             IN /\ (HasPrefix(a) /\ HasPrefix(b) /\ Prefix(a) # Prefix(b))
                      => Prefix(a) < Prefix(b)
                /\ HasPrefix(b) => HasPrefix(a)
                /\ ((HasPrefix(a) /\ HasPrefix(b) /\ Prefix(a) = Prefix(b))
                    \/ (~HasPrefix(a) /\ ~HasPrefix(b)))
                      => localeCompare(a, b) <= 0

(***************************************************************************)
(* The CLI driver on its own: one detectAndRepair() on a fresh detector.   *)
(***************************************************************************)
DriverCall ==
    /\ pc = "idle"
    /\ entry' = "main"
    /\ pc' = "checkStackExists"
    /\ UNCHANGED <<phase, rl, attempts, detectionId, lastPoll, driftStatus, drifts, analysis,
                   answer, result, final, thrown, raised, exitCode, waitLog, calls, runs,
                   stackCheck>>
    /\ UNCHANGED <<callerVars, scriptVars>>

DriverNext ==
    \/ DriverCall
    \/ CheckStackExists
    \/ StartDriftDetection
    \/ Poll
    \/ Sleep
    \/ Timeout
    \/ GetDriftDetails
    \/ Question
    \/ Deploy

DriverSpec == Init /\ [][DriverNext]_vars

C31_Order ==
    /\ calls["cdk deploy"] <= 1
    /\ runs = 2 => (calls["cdk deploy"] = 1 /\ phase = "repair")
    /\ (phase = "repair" /\ pc \in {"startDriftDetection", "waitForDriftDetection", "sleep"})
          => (calls["cdk deploy"] = 1 /\ thrown = NoError)
    /\ (phase = "repair" /\ runs = 2) =>
          /\ detectionId = 2
          /\ \A i \in DOMAIN waitLog : waitLog[i].id = 2
    /\ (phase = "repair" /\ runs = 1) => waitLog = <<>>
    /\ DeployFailed => (runs = 1 /\ waitLog = <<>> /\ final.returned /\ ~final.repairSuccess)

C31_Step ==
    /\ calls'["cdk deploy"] # calls["cdk deploy"] =>
          (calls["cdk deploy"] = 0 /\ runs = 1 /\ runs' = 1 /\ waitLog' = <<>>)
    /\ (phase = "repair" /\ runs' # runs) =>
          (calls["cdk deploy"] = 1 /\ thrown = NoError /\ detectionId' = runs' /\ runs' = 2)
    /\ (phase = "repair" /\ Len(waitLog') > Len(waitLog)) =>
          waitLog'[Len(waitLog')].id = 2

\* C31 - In repairDrift the redeploy is issued exactly once and before any verification
\* step; the verification run is started only after the redeploy returned without an
\* error, and every verification poll asks for the id of that new run, never for the
\* id of the run made before the repair.
C31_RedeployThenVerifyNewRun == []C31_Order /\ [][C31_Step]_vars

C31_Witness ==
    /\ phase = "repair"
    /\ runs = 2
    /\ detectionId = 2
    /\ calls["cdk deploy"] = 1
    /\ Len(waitLog) = 3
    /\ waitLog[3].id = 2

C32_OneRun ==
    /\ pc = "getDriftDetails" => (runs = 1 /\ detectionId = 1 /\ driftStatus = lastPoll
                                  /\ calls["describe-stack-resource-drifts"] = 0)
    /\ (result.returned /\ result.stackExists) =>
          /\ calls["describe-stack-resource-drifts"] = 1
          /\ result.drifts = drifts
          /\ result.analysis = analyzeDrifts(result.drifts)
          /\ result.analysis = analysis
          /\ result.driftStatus.DetectionStatus = "DETECTION_COMPLETE"
          /\ phase = "detect" =>
                (runs = 1 /\ detectionId = 1 /\ result.driftStatus = lastPoll)
    /\ (result.returned /\ ~result.stackExists) =>
          (runs = 0 /\ calls["describe-stack-resource-drifts"] = 0 /\ result.drifts = <<>>)

C32_Step ==
    (result' # result /\ result'.stackExists) =>
        /\ runs = 1
        /\ runs' = 1
        /\ result'.driftStatus = lastPoll
        /\ result'.drifts = drifts'
        /\ lastPoll.DetectionStatus = "DETECTION_COMPLETE"

\* C32 - Runs are never merged: a detectAndReport result with stackExists = true holds
\* the drifts of the single detail fetch of that call, made after the one run the call
\* started had completed; its analysis is analyzeDrifts of those drifts and its
\* driftStatus is the snapshot the wait for that run returned.
C32_RunsNeverMerged == []C32_OneRun /\ [][C32_Step]_vars

C32_Witness ==
    /\ result.returned
    /\ result.stackExists
    /\ Len(result.drifts) = 3
    /\ result.analysis.drifted = 2
    /\ result.driftStatus.StackDriftStatus = "DRIFTED"
    /\ phase = "repair"
    /\ runs = 2


(***************************************************************************)
(* The pre-test check script: preTestCheck() runs detectAndRepair() on a   *)
(* fresh detector and decides whether the tests may start.                 *)
(***************************************************************************)
\* preTestCheck: the three tests on the value detectAndRepair returned.  "ask" is the
\* question whether to go on, "return" the normal end of the function.
PreTestVerdict_noQuestion(f) ==
    IF ~f.report.stackExists THEN "exit1"
    ELSE IF f.report.needsRepair /\ ~f.repairSuccess THEN "exit1"
    ELSE "return"

PreTestVerdict(f) ==
    IF ~f.report.stackExists THEN "exit1"
    ELSE IF f.report.needsRepair /\ ~f.repairSuccess THEN "exit1"
    ELSE IF /\ "analysis" \in f.report.fields
            /\ f.report.analysis.drifted > 0
            /\ ~f.report.needsRepair
         THEN "ask"
    ELSE "return"

\* resolve(answer.toLowerCase() === 'y' || answer.toLowerCase() === 'yes'): no trim.
ContinueTest(ans) == ToLowerCase(ans) = "y" \/ ToLowerCase(ans) = "yes"

ContinueAnswers == Answers \cup {" y"}

\* The script is started.
PreTestCall ==
    /\ pc = "idle"
    /\ entry' = "preTestCheck"
    /\ pc' = "checkStackExists"
    /\ UNCHANGED <<phase, rl, attempts, detectionId, lastPoll, driftStatus, drifts, analysis,
                   answer, result, final, thrown, raised, exitCode, waitLog, calls, runs,
                   stackCheck>>
    /\ UNCHANGED <<callerVars, scriptVars>>

\* detectAndRepair() has ended: the catch block exits with 1 for an error, else the
\* three tests run.  pc "exited" is process.exit, "returned" the normal end.
PreTestEvaluate ==
    /\ pc = "done"
    /\ entry = "preTestCheck"
    /\ IF raised # NoError
       THEN /\ pc' = "exited"
            /\ exitCode' = 1
       ELSE CASE PreTestVerdict(final) = "exit1" ->
                   /\ pc' = "exited"
                   /\ exitCode' = 1
              [] PreTestVerdict(final) = "ask" ->
                   /\ pc' = "continueQuestion"
                   /\ exitCode' = exitCode
              [] OTHER ->
                   /\ pc' = "returned"
                   /\ exitCode' = exitCode
    /\ UNCHANGED <<entry, phase, rl, attempts, detectionId, lastPoll, driftStatus, drifts,
                   analysis, answer, result, final, thrown, raised, waitLog, calls, runs,
                   stackCheck>>
    /\ UNCHANGED <<callerVars, scriptVars>>

\* The user answers the question of preTestCheck, asked on a channel of its own.
PreTestQuestion ==
    /\ pc = "continueQuestion"
    /\ entry = "preTestCheck"
    /\ \E a \in ContinueAnswers :
         /\ continueAnswer' = a
         /\ IF ContinueTest(a)
            THEN /\ pc' = "returned"
                 /\ exitCode' = exitCode
            ELSE /\ pc' = "exited"
                 /\ exitCode' = 1
    /\ UNCHANGED <<entry, phase, rl, attempts, detectionId, lastPoll, driftStatus, drifts,
                   analysis, answer, result, final, thrown, raised, waitLog, calls, runs,
                   stackCheck, helperReturn>>
    /\ UNCHANGED scriptVars

PreTestNext ==
    \/ PreTestCall
    \/ CheckStackExists
    \/ StartDriftDetection
    \/ Poll
    \/ Sleep
    \/ Timeout
    \/ GetDriftDetails
    \/ Question
    \/ Deploy
    \/ PreTestEvaluate
    \/ PreTestQuestion

PreTestSpec == Init /\ [][PreTestNext]_vars

\* C33 - preTestCheck returns normally (the tests may start) only if the stack exists
\* and no resource drifted, or the repair was attempted and succeeded, or drift
\* remains unrepaired and the user answered y or yes to the question whether to go
\* on.  Every other outcome, a raised error included, ends in process.exit(1).
C33_TestsStartOnlyWhenSafe ==
    entry = "preTestCheck" =>
        /\ pc = "returned" =>
              /\ exitCode # 1
              /\ raised = NoError
              /\ final.returned
              /\ final.report.stackExists
              /\ \/ final.report.analysis.drifted = 0
                 \/ final.repairAttempted /\ final.repairSuccess
                 \/ /\ final.report.analysis.drifted > 0
                    /\ ~final.repairAttempted
                    /\ continueAnswer \in {"y", "Y", "yes", "YES", "Yes"}
        /\ pc = "exited" => exitCode = 1
        /\ pc \in {"returned", "exited"} \/ exitCode = -1

\* A run with unrepaired drift that the user let pass.
C33_Witness ==
    /\ entry = "preTestCheck"
    /\ pc = "returned"
    /\ final.report.analysis.drifted > 0
    /\ ~final.repairAttempted
    /\ continueAnswer = "YES"


\* C34 - ensureStackExists never throws: it returns the value of checkStackExists when
\* the check succeeds (true exactly for a describe-stacks answer with a stack in it)
\* and returns false for every error the check raises.
C34_EnsureNeverThrows ==
    (entry = "ensureStackExists" /\ pc = "done") =>
        /\ raised = NoError
        /\ helperReturn.returned
        /\ stackCheck.called
        /\ stackCheck.outcome = checkStackExists(stackCheck.resp)
        /\ ~stackCheck.outcome.throws => helperReturn.value = stackCheck.outcome.value
        /\ stackCheck.outcome.throws => helperReturn.value = FALSE
        /\ helperReturn.value = (stackCheck.resp.ok /\ stackCheck.resp.stacks > 0)

\* The check raised an error (access denied) and the helper returned false.
C34_Witness ==
    /\ entry = "ensureStackExists"
    /\ pc = "done"
    /\ stackCheck.outcome.throws
    /\ thrown = CommandError(<<"AccessDenied">>)
    /\ helperReturn = [returned |-> TRUE, value |-> FALSE]


(***************************************************************************)
(* AthenaHelper.executeQuery and waitForQueryCompletion, step by step      *)
(***************************************************************************)
\* waitForQueryCompletion(executionId, maxWaitTimeMs = 300000)
maxWaitTimeMs == 300000

\* setTimeout(resolve, 2000)
retryDelayMs == 2000

\* The time one GetQueryExecution request takes, in ms.
PollLatencies == {0, 1000}

\* execution.Status?.State: a state of the service, or undefined.
QueryStates == {"QUEUED", "RUNNING", "SUCCEEDED", "FAILED", "CANCELLED", "<undefined>"}

\* executionDetails.Status?.StateChangeReason
StateChangeReasons == {"<undefined>", "", "SYNTAX_ERROR"}

\* An error of client.send (or of ensureClient).
SendError == [name |-> "InvalidRequestException", message |-> <<"Entity", "Not", "Found">>]

\* new Error(`クエリタイムアウト、実行ID: ${executionId}`)
QueryTimeoutError == [name |-> "Error", message |-> <<"query-timeout">>]

\* waitForQueryCompletion: the loop condition.
WaitCondition(e) == e < maxWaitTimeMs

\* waitForQueryCompletion: if (state === 'SUCCEEDED' || state === 'FAILED' || state === 'CANCELLED')
IsTerminal_succeededOrFailed(state) == state \in {"SUCCEEDED", "FAILED"}

IsTerminal(state) == state \in {"SUCCEEDED", "FAILED", "CANCELLED"}

\* executeQuery: if (finalState === 'SUCCEEDED') - whether the results are fetched.
ResultsFetched_unlessFailed(state) == state # "FAILED"

ResultsFetched(state) == state = "SUCCEEDED"

\* executionDetails.Status?.StateChangeReason || 'Unknown error'
ErrorText(reason) == IF Truthy(reason) THEN reason ELSE "Unknown error"

QueuedResult ==
    [returned |-> TRUE, fields |-> {"executionId", "state"}, state |-> "QUEUED",
     error |-> "<undefined>"]

SucceededResult(state) ==
    [returned |-> TRUE, fields |-> {"executionId", "state", "resultData", "columnInfo"},
     state |-> state, error |-> "<undefined>"]

FailedResult(state, reason) ==
    [returned |-> TRUE, fields |-> {"executionId", "state", "error"}, state |-> state,
     error |-> ErrorText(reason)]

\* The catch block of executeQuery logs the error and rethrows it.
QueryThrow(err) ==
    /\ queryPc' = "thrown"
    /\ queryError' = err
    /\ queryResult' = queryResult

QueryReturn(r) ==
    /\ queryPc' = "returned"
    /\ queryResult' = r
    /\ queryError' = queryError

\* executeQuery(sql, waitForCompletion) is called.
ExecuteQueryCall ==
    /\ queryPc = "idle"
    /\ \E w \in BOOLEAN : waitForCompletion' = w
    /\ queryPc' = "start"
    /\ UNCHANGED <<elapsed, sends, lastState, finalState, queryResult, queryError>>
    /\ UNCHANGED exceptQuery

\* ensureClient(), client.send(startCommand) and the return for waitForCompletion =
\* false; else waitForQueryCompletion is entered: const startTime = Date.now().
StartQueryExecution ==
    /\ queryPc = "start"
    /\ sends' = Bump(sends, "StartQueryExecution")
    /\ \/ IF ~waitForCompletion
          THEN QueryReturn(QueuedResult)
          ELSE /\ queryPc' = "wait"
               /\ UNCHANGED <<queryResult, queryError>>
       \/ QueryThrow(SendError)
    /\ UNCHANGED <<waitForCompletion, elapsed, lastState, finalState>>
    /\ UNCHANGED exceptQuery

\* waitForQueryCompletion: one pass of the loop body up to the return or the sleep.
PollQuery ==
    /\ queryPc = "wait"
    /\ WaitCondition(elapsed)
    /\ sends' = Bump(sends, "GetQueryExecution")
    /\ \E ms \in PollLatencies :
         /\ elapsed' = elapsed + ms
         /\ \/ \E state \in QueryStates :
                 /\ lastState' = state
                 /\ IF IsTerminal(state)
                    THEN /\ finalState' = state
                         /\ queryPc' = IF ResultsFetched(state) THEN "getQueryResults"
                                       ELSE "getDetails"
                    ELSE /\ finalState' = finalState
                         /\ queryPc' = "sleep"
                 /\ UNCHANGED <<queryResult, queryError>>
            \/ /\ QueryThrow(SendError)
               /\ UNCHANGED <<lastState, finalState>>
    /\ UNCHANGED waitForCompletion
    /\ UNCHANGED exceptQuery

\* await new Promise(resolve => setTimeout(resolve, 2000))
QuerySleep ==
    /\ queryPc = "sleep"
    /\ elapsed' = elapsed + retryDelayMs
    /\ queryPc' = "wait"
    /\ UNCHANGED <<waitForCompletion, sends, lastState, finalState, queryResult, queryError>>
    /\ UNCHANGED exceptQuery

\* The loop ends: throw new Error('クエリタイムアウト...'), rethrown by executeQuery.
QueryTimeout ==
    /\ queryPc = "wait"
    /\ ~WaitCondition(elapsed)
    /\ QueryThrow(QueryTimeoutError)
    /\ UNCHANGED <<waitForCompletion, elapsed, sends, lastState, finalState>>
    /\ UNCHANGED exceptQuery

\* executeQuery: getQueryResults(executionId) and the return.
GetQueryResults ==
    /\ queryPc = "getQueryResults"
    /\ sends' = Bump(sends, "GetQueryResults")
    /\ \/ QueryReturn(SucceededResult(finalState))
       \/ QueryThrow(SendError)
    /\ UNCHANGED <<waitForCompletion, elapsed, lastState, finalState>>
    /\ UNCHANGED exceptQuery

\* executeQuery: getQueryExecution(executionId) for the error details and the return.
GetExecutionDetails ==
    /\ queryPc = "getDetails"
    /\ sends' = Bump(sends, "GetQueryExecution")
    /\ \/ \E reason \in StateChangeReasons : QueryReturn(FailedResult(finalState, reason))
       \/ QueryThrow(SendError)
    /\ UNCHANGED <<waitForCompletion, elapsed, lastState, finalState>>
    /\ UNCHANGED exceptQuery

QueryNext ==
    \/ ExecuteQueryCall
    \/ StartQueryExecution
    \/ PollQuery
    \/ QuerySleep
    \/ QueryTimeout
    \/ GetQueryResults
    \/ GetExecutionDetails

QuerySpec == Init /\ [][QueryNext]_vars


\* The call of executeQuery has ended.
QueryEnded == queryPc \in {"returned", "thrown"}

QueuedWithoutPoll ==
    (~waitForCompletion /\ QueryEnded) =>
        /\ sends["GetQueryExecution"] = 0
        /\ sends["GetQueryResults"] = 0
        /\ queryPc = "returned" =>
              (queryResult.state = "QUEUED" /\ sends["StartQueryExecution"] = 1)

FailedResultShape ==
    /\ queryResult.state = finalState
    /\ "error" \in queryResult.fields
    /\ queryResult.error \notin {"<undefined>", ""}
    /\ "resultData" \notin queryResult.fields

\* C35 (as claimed) - executeQuery fetches the query results only when the final state
\* is SUCCEEDED; for a final state FAILED or CANCELLED it returns (does not throw) a
\* result with that state, an error text and no resultData; with waitForCompletion =
\* false it returns state QUEUED right after the start call without a status poll.
C35_FailedStateAlwaysReturned ==
    /\ sends["GetQueryResults"] > 0 => finalState = "SUCCEEDED"
    /\ (QueryEnded /\ finalState \in {"FAILED", "CANCELLED"}) =>
          (queryPc = "returned" /\ FailedResultShape)
    /\ QueuedWithoutPoll

\* C35 (amended) - as claimed, except that for a final state FAILED or CANCELLED the
\* result is returned only if the request for the execution details succeeds; if that
\* request fails, executeQuery rethrows its error and returns nothing.
C35_FailedStateReturnedUnlessDetailsFail ==
    /\ sends["GetQueryResults"] > 0 => finalState = "SUCCEEDED"
    /\ (QueryEnded /\ finalState \in {"FAILED", "CANCELLED"}) =>
          /\ queryPc = "returned" => FailedResultShape
          /\ queryPc = "thrown" =>
                (queryError = SendError /\ ~queryResult.returned)
    /\ (queryPc = "returned" /\ "resultData" \in queryResult.fields) =>
          (finalState = "SUCCEEDED" /\ sends["GetQueryResults"] = 1)
    /\ QueuedWithoutPoll

\* A cancelled query whose details carry no reason.
C35_Witness ==
    /\ queryPc = "returned"
    /\ finalState = "CANCELLED"
    /\ queryResult.state = "CANCELLED"
    /\ queryResult.error = "Unknown error"
    /\ sends["GetQueryResults"] = 0

\* The number of passes the wait loop can make: one every retryDelayMs.
MaxPolls == maxWaitTimeMs \div retryDelayMs

C36_Wait ==
    /\ finalState # "<none>" =>
          (finalState \in {"SUCCEEDED", "FAILED", "CANCELLED"} /\ finalState = lastState)
    /\ queryPc = "sleep" => lastState \in {"QUEUED", "RUNNING", "<undefined>"}
    /\ queryPc = "wait" => lastState \in {"<none>", "QUEUED", "RUNNING", "<undefined>"}
    /\ queryPc = "wait" => elapsed >= 2000 * sends["GetQueryExecution"]
    /\ queryPc = "sleep" => elapsed >= 2000 * (sends["GetQueryExecution"] - 1)
    /\ queryPc \in {"wait", "sleep"} => sends["GetQueryExecution"] <= MaxPolls
    /\ queryError = QueryTimeoutError =>
          /\ elapsed >= 300000
          /\ finalState = "<none>"
          /\ lastState \in {"QUEUED", "RUNNING", "<undefined>"}

C36_Step ==
    /\ queryPc = "sleep" =>
          (queryPc' = "wait" /\ elapsed' = elapsed + 2000 /\ sends' = sends)
    /\ (queryPc = "wait" /\ elapsed >= 300000) =>
          (queryPc' = "thrown" /\ queryError' = QueryTimeoutError /\ sends' = sends)
    /\ (queryPc = "wait" /\ sends' # sends) => elapsed < 300000
    /\ (queryPc = "wait" /\ finalState' # finalState) =>
          (finalState' = lastState' /\ queryPc' \in {"getQueryResults", "getDetails"})

\* C36 - waitForQueryCompletion returns only SUCCEEDED, FAILED or CANCELLED, and on the
\* first poll that reports it; after a poll with any other state it sleeps 2000 ms
\* before the next poll; once the elapsed time has reached 300000 ms with no terminal
\* state seen it raises the timeout error, so one wait makes at most 150 polls.
C36_TerminalStateOrTimeout == []C36_Wait /\ [][C36_Step]_vars

\* The timeout after 150 polls that all reported a state that is not terminal.
C36_Witness ==
    /\ queryPc = "thrown"
    /\ queryError = QueryTimeoutError
    /\ sends["GetQueryExecution"] = 150
    /\ elapsed = 300000


(***************************************************************************)
(* The cleanup utilities (CleanupManager, AWSCleanupManager, runCommand)   *)
(* and the full-cleanup script that asks before it deletes.                *)
(***************************************************************************)
\* export const CleanupLevel = { LOCAL_ONLY, DATA_ONLY, AWS_INFRASTRUCTURE, FULL }
CleanupLevel ==
    [LOCAL_ONLY |-> "local", DATA_ONLY |-> "data", AWS_INFRASTRUCTURE |-> "aws",
     FULL |-> "full"]

\* The values a caller can pass as level: the declared ones and one that is not.
LevelArguments == {"local", "data", "aws", "full", "everything"}

\* new Error(`未知のクリーンアップレベル: ${level}`)
UnknownLevelError == [name |-> "Error", message |-> <<"unknown-cleanup-level">>]

\* cleanAll(): first cleanAWSOnly(), then cleanLocalFiles().
cleanAll_localFirst == <<"local", "aws">>

cleanAll == <<"aws", "local">>

\* performCleanup: the switch.  The value is the parts of the cleanup to run, or the
\* error of the default branch.
performCleanupSwitch(level) ==
    CASE level = CleanupLevel.LOCAL_ONLY -> [throws |-> FALSE, plan |-> <<"local">>]
      [] level = CleanupLevel.AWS_INFRASTRUCTURE -> [throws |-> FALSE, plan |-> <<"aws">>]
      [] level = CleanupLevel.FULL -> [throws |-> FALSE, plan |-> cleanAll]
      [] OTHER -> [throws |-> TRUE, plan |-> <<>>]

\* runCommand(command, description, optional): execSync inside try; the catch block
\* returns { success: false } for optional and for required commands alike.
runCommand(command, optional, succeeds) ==
    [cmd |-> command, ok |-> succeeds, optional |-> optional, throws |-> FALSE]

\* The text the user types at the confirmation prompt.
ConfirmAnswers == {"y", " Yes ", "YES", "n", "", "yes please"}

\* String.prototype.trim on the answers of the model.
TrimAnswer(a) == IF a = " Yes " THEN "Yes" ELSE a

\* confirmAction: response === "y" || response === "yes", response trimmed, lower case.
confirmAction(a) ==
    ToLowerCase(TrimAnswer(a)) = "y" \/ ToLowerCase(TrimAnswer(a)) = "yes"

\* stackInfo.StackStatus of an existing stack.
StackStatuses == {"CREATE_COMPLETE", "ROLLBACK_COMPLETE", "CREATE_FAILED", "DELETE_FAILED"}

\* cleanupCloudFormationStack: the states in which the stack is deleted directly.
IsFailedStack(status) == status \in {"ROLLBACK_COMPLETE", "CREATE_FAILED", "DELETE_FAILED"}

\* The next part of the cleanup starts, or performCleanup returns.
StartPart(plan) ==
    /\ cleanPlan' = IF plan = <<>> THEN plan ELSE Tail(plan)
    /\ cleanPc' = IF plan = <<>> THEN "returned"
                  ELSE IF Head(plan) = "aws" THEN "getS3BucketName"
                  ELSE "cleanLocalFiles"

\* The full-cleanup script is started, or performCleanup(level) is called directly.
CleanupStart ==
    /\ cleanPc = "idle"
    /\ \/ /\ cleanEntry' = "main"
          /\ cleanPc' = "confirmAction"
          /\ cleanLevel' = cleanLevel
       \/ /\ cleanEntry' = "performCleanup"
          /\ cleanPc' = "performCleanup"
          /\ \E level \in LevelArguments : cleanLevel' = level
    /\ UNCHANGED <<cleanPlan, cleanLog, confirmAnswer, bucketName, cleanExit, cleanError>>
    /\ UNCHANGED exceptCleanup

\* main(): await confirmAction(...); if (!confirmed) process.exit(0).
ConfirmAction ==
    /\ cleanPc = "confirmAction"
    /\ \E a \in ConfirmAnswers :
         /\ confirmAnswer' = a
         /\ IF confirmAction(a)
            THEN /\ cleanPc' = "performCleanup"
                 /\ cleanLevel' = CleanupLevel.FULL
                 /\ cleanExit' = cleanExit
            ELSE /\ cleanPc' = "exited"
                 /\ cleanLevel' = cleanLevel
                 /\ cleanExit' = 0
    /\ UNCHANGED <<cleanEntry, cleanPlan, cleanLog, bucketName, cleanError>>
    /\ UNCHANGED exceptCleanup

\* performCleanup(level): the switch; the error of the default branch is rethrown by
\* the catch block, and the catch block of main() exits with 1.
PerformCleanup ==
    /\ cleanPc = "performCleanup"
    /\ LET sw == performCleanupSwitch(cleanLevel)
       IN IF sw.throws
          THEN /\ cleanError' = UnknownLevelError
               /\ cleanPlan' = cleanPlan
               /\ cleanPc' = IF cleanEntry = "main" THEN "exited" ELSE "thrown"
               /\ cleanExit' = IF cleanEntry = "main" THEN 1 ELSE cleanExit
          ELSE /\ StartPart(sw.plan)
               /\ UNCHANGED <<cleanError, cleanExit>>
    /\ UNCHANGED <<cleanEntry, cleanLevel, cleanLog, confirmAnswer, bucketName>>
    /\ UNCHANGED exceptCleanup

\* getS3BucketName() and the test if (!bucketName) of cleanupS3Bucket.
GetS3BucketName ==
    /\ cleanPc = "getS3BucketName"
    /\ \E succeeds \in BOOLEAN :
         LET r == runCommand("sts get-caller-identity", TRUE, succeeds)
         IN /\ cleanLog' = Append(cleanLog, r)
            /\ bucketName' = IF r.ok THEN "iceberg-datalake" ELSE "<null>"
            /\ cleanPc' = IF r.ok THEN "checkBucket" ELSE "getStackInfo"
    /\ UNCHANGED <<cleanEntry, cleanLevel, cleanPlan, confirmAnswer, cleanExit, cleanError>>
    /\ UNCHANGED exceptCleanup

\* cleanupS3Bucket: aws s3 ls and the return if the check failed.
CheckBucket ==
    /\ cleanPc = "checkBucket"
    /\ \E succeeds \in BOOLEAN :
         LET r == runCommand("s3 ls", TRUE, succeeds)
         IN /\ cleanLog' = Append(cleanLog, r)
            /\ cleanPc' = IF r.ok THEN "emptyBucket" ELSE "getStackInfo"
    /\ UNCHANGED <<cleanEntry, cleanLevel, cleanPlan, confirmAnswer, bucketName, cleanExit,
                   cleanError>>
    /\ UNCHANGED exceptCleanup

\* cleanupS3Bucket: aws s3 rm --recursive; its result is not looked at.
EmptyBucket ==
    /\ cleanPc = "emptyBucket"
    /\ \E succeeds \in BOOLEAN :
         cleanLog' = Append(cleanLog, runCommand("s3 rm", TRUE, succeeds))
    /\ cleanPc' = "removeBucket"
    /\ UNCHANGED <<cleanEntry, cleanLevel, cleanPlan, confirmAnswer, bucketName, cleanExit,
                   cleanError>>
    /\ UNCHANGED exceptCleanup

\* cleanupS3Bucket: aws s3 rb.
RemoveBucket ==
    /\ cleanPc = "removeBucket"
    /\ \E succeeds \in BOOLEAN :
         cleanLog' = Append(cleanLog, runCommand("s3 rb", TRUE, succeeds))
    /\ cleanPc' = "getStackInfo"
    /\ UNCHANGED <<cleanEntry, cleanLevel, cleanPlan, confirmAnswer, bucketName, cleanExit,
                   cleanError>>
    /\ UNCHANGED exceptCleanup

\* cleanupCloudFormationStack: getStackInfo() and the choice of the deletion.  found
\* is FALSE when the output cannot be parsed or holds no stack.
GetStackInfo ==
    /\ cleanPc = "getStackInfo"
    /\ \/ /\ cleanLog' = Append(cleanLog, runCommand("describe-stacks", TRUE, FALSE))
          /\ StartPart(cleanPlan)
       \/ \E found \in BOOLEAN, status \in StackStatuses :
            /\ cleanLog' = Append(cleanLog, runCommand("describe-stacks", TRUE, TRUE))
            /\ IF ~found THEN StartPart(cleanPlan)
               ELSE /\ cleanPc' = IF IsFailedStack(status) THEN "deleteStack" ELSE "cdkDestroy"
                    /\ cleanPlan' = cleanPlan
    /\ UNCHANGED <<cleanEntry, cleanLevel, confirmAnswer, bucketName, cleanExit, cleanError>>
    /\ UNCHANGED exceptCleanup

\* aws cloudformation delete-stack (a required command).
DeleteStack ==
    /\ cleanPc = "deleteStack"
    /\ \E succeeds \in BOOLEAN :
         cleanLog' = Append(cleanLog, runCommand("delete-stack", FALSE, succeeds))
    /\ cleanPc' = "waitStackDelete"
    /\ UNCHANGED <<cleanEntry, cleanLevel, cleanPlan, confirmAnswer, bucketName, cleanExit,
                   cleanError>>
    /\ UNCHANGED exceptCleanup

\* aws cloudformation wait stack-delete-complete.
WaitStackDelete ==
    /\ cleanPc = "waitStackDelete"
    /\ \E succeeds \in BOOLEAN :
         cleanLog' = Append(cleanLog, runCommand("wait stack-delete-complete", TRUE, succeeds))
    /\ StartPart(cleanPlan)
    /\ UNCHANGED <<cleanEntry, cleanLevel, confirmAnswer, bucketName, cleanExit, cleanError>>
    /\ UNCHANGED exceptCleanup

\* cdk destroy --force (a required command).
CdkDestroy ==
    /\ cleanPc = "cdkDestroy"
    /\ \E succeeds \in BOOLEAN :
         cleanLog' = Append(cleanLog, runCommand("cdk destroy", FALSE, succeeds))
    /\ StartPart(cleanPlan)
    /\ UNCHANGED <<cleanEntry, cleanLevel, confirmAnswer, bucketName, cleanExit, cleanError>>
    /\ UNCHANGED exceptCleanup

\* cleanLocalFiles(): deleteDir and deletePattern catch every error of their commands.
CleanLocalFiles ==
    /\ cleanPc = "cleanLocalFiles"
    /\ cleanLog' = Append(cleanLog, [cmd |-> "cleanLocalFiles", ok |-> TRUE,
                                     optional |-> TRUE, throws |-> FALSE])
    /\ StartPart(cleanPlan)
    /\ UNCHANGED <<cleanEntry, cleanLevel, confirmAnswer, bucketName, cleanExit, cleanError>>
    /\ UNCHANGED exceptCleanup

CleanupNext ==
    \/ CleanupStart
    \/ ConfirmAction
    \/ PerformCleanup
    \/ GetS3BucketName
    \/ CheckBucket
    \/ EmptyBucket
    \/ RemoveBucket
    \/ GetStackInfo
    \/ DeleteStack
    \/ WaitStackDelete
    \/ CdkDestroy
    \/ CleanLocalFiles

CleanupSpec == Init /\ [][CleanupNext]_vars


S3Steps == {"s3 ls", "s3 rm", "s3 rb"}

StackSteps == {"describe-stacks", "delete-stack", "wait stack-delete-complete", "cdk destroy"}

AwsSteps == {"sts get-caller-identity"} \cup S3Steps \cup StackSteps

\* Some step before position j ran command c and succeeded.
SucceededBefore(c, j) ==
    \E i \in 1..(j - 1) : cleanLog[i].cmd = c /\ cleanLog[i].ok

\* C37 - Cleanup ordering: every AWS step runs before the local files are cleaned; in
\* the AWS cleanup the bucket steps run before the CloudFormation steps; the bucket is
\* emptied before it is removed, and both only after the bucket name was resolved and
\* the existence check of the bucket succeeded.  A FULL cleanup that returned did the
\* stack cleanup and then the local cleanup.
C37_CleanupOrder ==
    /\ \A i, j \in DOMAIN cleanLog :
          /\ (cleanLog[i].cmd \in AwsSteps /\ cleanLog[j].cmd = "cleanLocalFiles") => i < j
          /\ (cleanLog[i].cmd \in S3Steps /\ cleanLog[j].cmd \in StackSteps) => i < j
          /\ (cleanLog[i].cmd = "s3 rm" /\ cleanLog[j].cmd = "s3 rb") => i < j
          /\ (cleanLog[i].cmd = "sts get-caller-identity" /\ cleanLog[j].cmd \in S3Steps)
                => i < j
    /\ \A j \in DOMAIN cleanLog :
          /\ cleanLog[j].cmd \in {"s3 rm", "s3 rb"} =>
                (SucceededBefore("sts get-caller-identity", j) /\ SucceededBefore("s3 ls", j))
          /\ cleanLog[j].cmd = "s3 rb" => cleanLog[j - 1].cmd = "s3 rm"
    /\ (cleanLevel = "full" /\ cleanPc \in {"cleanLocalFiles", "returned"}) =>
          \E i \in DOMAIN cleanLog : cleanLog[i].cmd = "describe-stacks"
    /\ (cleanLevel = "full" /\ cleanPc = "returned") =>
          cleanLog[Len(cleanLog)].cmd = "cleanLocalFiles"

\* A FULL cleanup that ran every step of the bucket and the stack cleanup.
C37_Witness ==
    /\ cleanLevel = "full"
    /\ cleanPc = "returned"
    /\ Len(cleanLog) = 7
    /\ cleanLog[1].cmd = "sts get-caller-identity"
    /\ cleanLog[2].cmd = "s3 ls"
    /\ cleanLog[3].cmd = "s3 rm"
    /\ ~cleanLog[3].ok
    /\ cleanLog[4].cmd = "s3 rb"
    /\ cleanLog[6].cmd = "cdk destroy"
    /\ cleanLog[7].cmd = "cleanLocalFiles"

\* C38 (as claimed) - performCleanup performs a cleanup and completes normally for
\* every level declared in CleanupLevel (local, data, aws, full); it raises the
\* unknown-level error only for a value that is not a declared level.
C38_EveryDeclaredLevelCleans ==
    (cleanEntry = "performCleanup" /\ cleanPc \in {"returned", "thrown"}) =>
        /\ cleanLevel \in {"local", "data", "aws", "full"} =>
              (cleanPc = "returned" /\ cleanError = NoError /\ cleanLog # <<>>)
        /\ cleanPc = "thrown" =>
              (cleanError = UnknownLevelError
                 /\ cleanLevel \notin {"local", "data", "aws", "full"})

\* A required command of the cleanup failed.
RequiredStepFailed ==
    \E i \in DOMAIN cleanLog : ~cleanLog[i].ok /\ ~cleanLog[i].optional

\* C39 (as claimed) - The full-cleanup script deletes nothing without confirmation:
\* performCleanup is invoked only after the answer, trimmed and lower-cased, is y or
\* yes; for any other answer the script exits with code 0 and has run no cleanup step;
\* a cleanup failure after the confirmation makes the script exit with code 1.
C39_ConfirmedCleanupReportsFailure ==
    cleanEntry = "main" =>
        /\ (cleanPc \notin {"confirmAction", "exited"} \/ cleanLog # <<>>) =>
              (confirmAnswer \in {"y", " Yes ", "YES"} /\ cleanLevel = "full")
        /\ confirmAnswer \in {"n", "", "yes please"} =>
              (cleanPc = "exited" /\ cleanExit = 0 /\ cleanLog = <<>>)
        /\ (cleanPc \in {"returned", "exited"} /\ RequiredStepFailed) =>
              (cleanPc = "exited" /\ cleanExit = 1)

====
